---- MODULE Spec2Model ----
(***************************************************************************)
(* LiveTranslator: the streaming pipeline coordinator                      *)
(* (src/src/live_translator.py), its TranslationCache                      *)
(* (src/src/translator.py) and the continuous-extraction loop              *)
(* (src/src/youtube_extractor.py), as a state machine.                     *)
(*                                                                         *)
(* Threads interleave at the granularity of Python statements: every       *)
(* statement that reads or writes a shared field is one step; a statement  *)
(* that touches only locals is merged into the step before it.             *)
(***************************************************************************)
EXTENDS Integers, Sequences, FiniteSets, TLC

(***************************************************************************)
(* Bounds of the model.                                                    *)
(***************************************************************************)
\* largest capacity a TranslationCache is constructed with
MaxCap == 2
\* number of get/set/clear calls made on a stand-alone TranslationCache
MaxCacheOps == 4
\* Spec, ConcSpec: number of events from outside in one run (calls of
\* start_translation and stop_translation, segments put on the queue,
\* exceptions escaping the worker's try body)
MaxEvents == 3
\* CacheConcSpec: number of get/set/clear calls of the two threads together
MaxConcCacheOps == 3
\* ConcSpec: number of calls of the two threads together
ConcCalls == 2
\* RunSpec: number of segments put on the queue after the one start
RunSegs == 3
\* cache_size the LiveTranslator is constructed with
CacheSize == 1
\* RestartSpec: number of calls of start_translation and stop_translation
RestartCalls == 3
\* RestartSpec: number of segments put on the queue
RestartSegs == 2
\* PassSpec: number of segments put on the queue after the one start
PassSegs == 3
\* RaceSpec: number of segments put on the queue
RaceSegs == 2

(***************************************************************************)
(* Optional[T]: None is the empty sequence, a value v is <<v>>.            *)
(***************************************************************************)
None == <<>>
Some(v) == <<v>>

RECURSIVE ListRemove(_, _)
\* list.remove(x): drops the first occurrence of x (the caller checks presence)
ListRemove(s, x) ==
    IF s = <<>> THEN <<>>
    ELSE IF Head(s) = x THEN Tail(s)
    ELSE <<Head(s)>> \o ListRemove(Tail(s), x)

ListHas(s, x) == \E i \in 1..Len(s) : s[i] = x

(***************************************************************************)
(* Inputs of the cache operations.                                         *)
(***************************************************************************)
Texts == {"hello", "world", "hullo"}
LangPairs == {<<"en", "ja">>, <<"ja", "en">>}
Translations == {"x", "y"}

\* hash(text) of a str, printed in decimal by the f-string.  The hash maps
\* unboundedly many strings to 64-bit integers, so distinct texts can share
\* one value: "hello" and "hullo" stand for such a pair.
hash(text) ==
    CASE text = "hello" -> "11"
      [] text = "hullo" -> "11"
      [] text = "world" -> "22"
      [] OTHER -> "0"

\* TranslationCache._make_key: f"{source_lang}->{target_lang}:{hash(text)}"
make_key(text, source_lang, target_lang) ==
    source_lang \o "->" \o target_lang \o ":" \o hash(text)

CacheKeys ==
    {make_key(t, p[1], p[2]) : t \in Texts, p \in LangPairs}

(***************************************************************************)
(* State.                                                                  *)
(***************************************************************************)
VARIABLES
    \* TranslationCache
    cache,          \* self.cache: dict key -> translation
    access_order,   \* self.access_order: list of keys, oldest first
    max_size,       \* self.max_size
    \* observation of the cache calls
    cache_calls,    \* the get/set/clear calls made so far: <<name, key,
                    \* result>>, and <<text, source, target>> where known
    last_use,       \* key -> number of the call that last hit or inserted it
    cache_exc,      \* the exception a cache call raised, "" if none
    \* LiveTranslator
    state,          \* self.state: a ProcessingState value
    audio_queue,    \* self.audio_queue: FIFO of segments, 0 is the None marker
    workers,        \* self.workers: list of worker threads
    stats,          \* self.stats
    source_language,
    target_language,
    segment_duration,
    \* YouTubeLiveAudioExtractor
    is_streaming,   \* self.is_streaming
    \* threads: the callers of the API, the workers, the extraction loops
    th,             \* thread id -> its position and locals
    \* observation of the run
    state_events,   \* values delivered to state_callback, in order
    state_changes,  \* values self.state changed to, in order
    error_events,   \* messages delivered to error_callback, in order
    results,        \* TranscriptionResults delivered to transcription_callback
    enqueued,       \* number of segments put on audio_queue so far
    seg_dur,        \* segment -> the duration it was extracted with
    cb_errors,      \* the callbacks that raised, in order: which callback
    rec_log,        \* segment -> outcome of its recognition
    raised,         \* <<worker, segment>> for each exception in a try body
    calls,          \* <<caller, method, state at the call, what had been
                    \* observed by then>> for each API call
    limits,         \* the run: what may come from outside, and how much
    returned        \* what the last get_stats (or, in ConfidenceSpec,
                    \* get_translation_confidence) returned or raised

cacheVars == <<cache, access_order, max_size>>
cacheObs == <<cache_calls, last_use, cache_exc>>
coordVars == <<state, audio_queue, workers, stats, source_language,
               target_language, segment_duration, is_streaming>>
obsVars == <<state_events, state_changes, error_events, results, enqueued,
             seg_dur, cb_errors,
             rec_log, raised, calls>>
vars == <<cacheVars, cacheObs, coordVars, th, obsVars, limits, returned>>

(***************************************************************************)
(* TranslationCache, as functions of the fields.                           *)
(***************************************************************************)
DictSet(d, k, v) == [x \in DOMAIN d \cup {k} |-> IF x = k THEN v ELSE d[x]]
DictDel(d, k) == [x \in DOMAIN d \ {k} |-> d[x]]
EmptyDict == [x \in {} |-> ""]

\* get, lines 302-308: the value returned
CacheGetResult(c, key) ==
    IF key \in DOMAIN c THEN Some(c[key]) ELSE None

\* get, lines 302-305: the recency list after the call
CacheGetOrder_NoPromote(c, order, key) == order
CacheGetOrder(c, order, key) ==
    IF key \in DOMAIN c
      THEN Append(ListRemove(order, key), key)
      ELSE order

\* set, line 315: must an entry be evicted before the insertion?
CacheSetEvicts_OffByOne(c, max, key) ==
    Cardinality(DOMAIN c) > max /\ key \notin DOMAIN c
CacheSetEvicts(c, max, key) ==
    Cardinality(DOMAIN c) >= max /\ key \notin DOMAIN c

\* set, lines 315-320: the dict after the call (order is not empty when
\* an entry is evicted; CacheSetRaises covers the other case)
CacheSetCache_KeepsOld(c, order, max, key, translation) ==
    IF key \in DOMAIN c THEN c
    ELSE IF CacheSetEvicts(c, max, key)
      THEN DictSet(DictDel(c, Head(order)), key, translation)
      ELSE DictSet(c, key, translation)
CacheSetCache(c, order, max, key, translation) ==
    IF CacheSetEvicts(c, max, key)
      THEN DictSet(DictDel(c, Head(order)), key, translation)
      ELSE DictSet(c, key, translation)

\* set, lines 315-323: the recency list after the call
CacheSetOrder(c, order, max, key) ==
    LET popped == IF CacheSetEvicts(c, max, key) THEN Tail(order) ELSE order
    IN  IF ListHas(popped, key) THEN popped ELSE Append(popped, key)

\* the exceptions of get and set: list.remove of an absent key (line 304),
\* pop from an empty list (line 317), del of an absent key (line 318)
CacheGetRaises(c, order, key) ==
    IF key \in DOMAIN c /\ ~ListHas(order, key) THEN "ValueError" ELSE ""
CacheSetRaises(c, order, max, key) ==
    IF ~CacheSetEvicts(c, max, key) THEN ""
    ELSE IF order = <<>> THEN "IndexError"
    ELSE IF Head(order) \notin DOMAIN c THEN "KeyError"
    ELSE ""

(***************************************************************************)
(* LiveTranslator.                                                         *)
(***************************************************************************)
\* ProcessingState
STOPPED == "stopped"
STARTING == "starting"
RUNNING == "running"
STOPPING == "stopping"
ERROR == "error"

\* threads: the API is called from threads 1 and 2; each successful start
\* spawns a worker (11, 12, ...) and an extraction loop (21, 22, ...)
Callers == {1, 2}
WorkerIds == DOMAIN th \cap (11..19)
ExtractorIds == DOMAIN th \cap (21..29)

\* outcomes of the collaborators
RecognizedTexts == {"hello", "world"}
\* what the translation backend answers for a text when it succeeds
Translated(text, target_lang) == target_lang \o ":" \o text
StartOutcomes == {"live", "not_live", "no_info"}
\* time.time() - start_time of a segment, in seconds
ProcessingTimes == {0, 2}

InitStats ==
    [segments_processed |-> 0, total_audio_time |-> 0,
     total_processing_time |-> 0, errors |-> 0,
     cache_hits |-> 0, cache_misses |-> 0]

\* self.stats[field] += amount: the item is loaded, amount is added to the
\* loaded value and the sum is stored
Incremented(st, field, loaded, amount) == [st EXCEPT ![field] = loaded + amount]
\* the statement as one step: the value loaded is the value of the item
AddTo(st, field, amount) == Incremented(st, field, st[field], amount)

NewThread(pc) ==
    [pc |-> pc, new_state |-> "", upd_ret |-> "", msg |-> "", err_ret |-> "",
     ret |-> "", audio |-> 0, text |-> "", trans |-> None, dur |-> 0,
     args |-> None, began |-> None, used |-> <<>>]

\* the events from outside made so far, and the guards that bound them
NumRaised == Cardinality({i \in 1..Len(raised) : raised[i][2] # 0})
Events == Len(calls) + enqueued + NumRaised + Len(cb_errors)
MayCall(c, method) ==
    /\ method \in limits.methods[c]
    /\ Len(calls) < limits.calls
    /\ Events < limits.events
MayEnqueue == enqueued < limits.segs /\ Events < limits.events
MayRaise == NumRaised < limits.raises /\ Events < limits.events
\* the answers a collaborator may give in this run: all of them, or only
\* those of a collaborator that does not fail
Answers(all, successes) == IF limits.fails THEN all ELSE successes
CallbackMayRaise == Len(cb_errors) < limits.callbacks /\ Events < limits.events

\* what has been observed when an API call is made
Observed ==
    [state_events |-> Len(state_events), error_events |-> Len(error_events),
     errors |-> stats.errors, threads |-> DOMAIN th,
     live |-> {t \in DOMAIN th \ Callers : th[t].pc # "exited"},
     is_streaming |-> is_streaming]

\* LiveTranslator.__init__ (with the TranslationCache it constructs)
LiveTranslatorNew(cache_size) ==
    /\ cache = EmptyDict
    /\ access_order = <<>>
    /\ max_size = cache_size
    /\ cache_calls = <<>>
    /\ last_use = EmptyDict
    /\ cache_exc = ""
    /\ state = STOPPED
    /\ audio_queue = <<>>
    /\ workers = <<>>
    /\ stats = InitStats
    /\ source_language = "en"
    /\ target_language = "ja"
    /\ segment_duration = 10
    /\ is_streaming = FALSE
    /\ th = [c \in Callers |-> NewThread("idle")]
    /\ state_events = <<>>
    /\ state_changes = <<>>
    /\ error_events = <<>>
    /\ results = <<>>
    /\ enqueued = 0
    /\ seg_dur = <<>>
    /\ cb_errors = <<>>
    /\ rec_log = EmptyDict
    /\ raised = <<>>
    /\ calls = <<>>
    /\ returned = None

LiveTranslatorInit == LiveTranslatorNew(CacheSize)

\* a thread continues at `target` after a call returns; the three returns of
\* start_translation and stop_translation end the API call
Resume(r, target) ==
    CASE target = "start_return_true"  -> [r EXCEPT !.pc = "idle", !.ret = "True"]
      [] target = "start_return_false" -> [r EXCEPT !.pc = "idle", !.ret = "False"]
      [] target = "stop_return"        -> [r EXCEPT !.pc = "idle", !.ret = "None"]
      [] OTHER                         -> [r EXCEPT !.pc = target]

\* the call self._update_state(new_state); the caller continues at ret
CallUpd(r, new_state, ret) ==
    [r EXCEPT !.pc = "upd_check", !.new_state = new_state, !.upd_ret = ret]

\* the call self._handle_error(msg); the caller continues at ret
CallErr_NoCount(r, msg, ret) ==
    CallUpd([r EXCEPT !.msg = msg, !.err_ret = ret], ERROR, "err_cb")
CallErr(r, msg, ret) ==
    [r EXCEPT !.pc = "err_log", !.msg = msg, !.err_ret = ret]

\* a registered callback returns or raises; lines 116-120, 128-132 and
\* 196-201 wrap the call in try/except Exception and only log the
\* exception, so the thread continues at ret either way
CallbackOutcomes == IF CallbackMayRaise THEN {"returns", "raises"} ELSE {"returns"}
AfterCallback_Propagates(r, outcome, ret) ==
    IF outcome = "raises" THEN CallErr(r, "callback", ret) ELSE Resume(r, ret)
AfterCallback(r, outcome, ret) == Resume(r, ret)
CallbackLogged(log, outcome, callback) ==
    IF outcome = "raises" THEN Append(log, callback) ELSE log

\* _update_state, line 112: if self.state != new_state
StateDiffers(cur, new_state) == cur # new_state

\* _update_state, line 112, executed by the thread whose record is r
UpdChecked(r) ==
    IF StateDiffers(state, r.new_state)
      THEN [r EXCEPT !.pc = "upd_write"]
      ELSE Resume(r, r.upd_ret)

UpdCheck(t) ==
    /\ th[t].pc = "upd_check"
    /\ th' = [th EXCEPT ![t] = UpdChecked(th[t])]
    /\ UNCHANGED <<cacheVars, cacheObs, coordVars, obsVars, limits, returned>>

\* _update_state, line 113: self.state = new_state
UpdWrite(t) ==
    /\ th[t].pc = "upd_write"
    /\ state' = th[t].new_state
    /\ state_changes' = IF state # th[t].new_state
                          THEN Append(state_changes, th[t].new_state)
                          ELSE state_changes
    /\ th' = [th EXCEPT ![t].pc = "upd_cb"]
    /\ UNCHANGED <<cacheVars, cacheObs, audio_queue, workers, stats,
                   source_language, target_language, segment_duration,
                   is_streaming, state_events, error_events, results,
                   enqueued, seg_dur, cb_errors, rec_log, raised, calls,
                   limits, returned>>

\* _update_state, lines 116-120: self.state_callback(new_state)
UpdCallback(t) ==
    /\ th[t].pc = "upd_cb"
    /\ state_events' = Append(state_events, th[t].new_state)
    /\ \E outcome \in CallbackOutcomes :
          /\ th' = [th EXCEPT ![t] = AfterCallback(th[t], outcome, th[t].upd_ret)]
          /\ cb_errors' = CallbackLogged(cb_errors, outcome, "state")
    /\ UNCHANGED <<cacheVars, cacheObs, coordVars, state_changes,
                   error_events, results, enqueued, seg_dur, rec_log, raised,
                   calls, limits, returned>>

\* _handle_error, lines 124-125: self.stats["errors"] += 1
ErrCount(t) ==
    /\ th[t].pc = "err_log"
    /\ stats' = AddTo(stats, "errors", 1)
    /\ th' = [th EXCEPT ![t] = CallUpd(th[t], ERROR, "err_cb")]
    /\ UNCHANGED <<cacheVars, cacheObs, state, audio_queue, workers,
                   source_language, target_language, segment_duration,
                   is_streaming, obsVars, limits, returned>>

\* _handle_error, lines 128-132: self.error_callback(error_message)
ErrCallback(t) ==
    /\ th[t].pc = "err_cb"
    /\ error_events' = Append(error_events, th[t].msg)
    /\ \E outcome \in CallbackOutcomes :
          /\ th' = [th EXCEPT ![t] = AfterCallback(th[t], outcome, th[t].err_ret)]
          /\ cb_errors' = CallbackLogged(cb_errors, outcome, "error")
    /\ UNCHANGED <<cacheVars, cacheObs, coordVars, state_events,
                   state_changes, results, enqueued, seg_dur, rec_log, raised,
                   calls, limits, returned>>

(***************************************************************************)
(* start_translation.                                                      *)
(***************************************************************************)
\* line 236: if self.state != ProcessingState.STOPPED: return False
StartRejected_ExceptError(cur) == cur \notin {STOPPED, ERROR}
StartRejected(cur) == cur # STOPPED

\* lines 235-240: the call, the test of the state, _update_state(STARTING)
CallStart(c) ==
    /\ th[c].pc = "idle"
    /\ MayCall(c, "start")
    /\ calls' = Append(calls, <<c, "start", state, Observed>>)
    /\ th' = [th EXCEPT ![c] =
                IF StartRejected(state)
                  THEN Resume(th[c], "start_return_false")
                  ELSE UpdChecked(CallUpd(th[c], STARTING, "start_validate"))]
    /\ UNCHANGED <<cacheVars, cacheObs, coordVars, state_events,
                   state_changes, error_events, results, enqueued, seg_dur,
                   cb_errors, rec_log, raised, limits, returned>>

\* lines 241-254: is_live_stream and get_stream_info, which answer for the
\* source outside the program
StartValidate(c) ==
    /\ th[c].pc = "start_validate"
    /\ \E outcome \in Answers(StartOutcomes, {"live"}) :
          th' = [th EXCEPT ![c] =
                   IF outcome = "live"
                     THEN [th[c] EXCEPT !.pc = "start_spawn"]
                     ELSE CallErr(th[c], outcome, "start_return_false")]
    /\ UNCHANGED <<cacheVars, cacheObs, coordVars, obsVars, limits, returned>>

\* lines 257-260: the worker thread is started and appended to self.workers
StartSpawn(c) ==
    /\ th[c].pc = "start_spawn"
    /\ LET w == 11 + Cardinality(WorkerIds) IN
         /\ th' = [t \in DOMAIN th \cup {w} |->
                     IF t = w THEN NewThread("w_loop")
                     ELSE IF t = c THEN [th[c] EXCEPT !.pc = "start_extract"]
                     ELSE th[t]]
         /\ workers' = Append(workers, w)
    /\ UNCHANGED <<cacheVars, cacheObs, state, audio_queue, stats,
                   source_language, target_language, segment_duration,
                   is_streaming, obsVars, limits, returned>>

\* lines 263-267 and start_continuous_extraction, lines 168-176, 196-198:
\* the flag is set and the extraction thread started with
\* segment_duration; the thread returns at once when get_best_audio_url
\* finds no audio URL
StartExtract(c) ==
    /\ th[c].pc = "start_extract"
    /\ is_streaming' = TRUE
    /\ \E audio_url \in Answers(BOOLEAN, {TRUE}) :
        LET e == 21 + Cardinality(ExtractorIds) IN
         th' = [t \in DOMAIN th \cup {e} |->
                  IF t = e
                    THEN [NewThread(IF audio_url THEN "ex_loop" ELSE "exited")
                            EXCEPT !.dur = segment_duration]
                  ELSE IF t = c THEN [th[c] EXCEPT !.pc = "start_running"]
                  ELSE th[t]]
    /\ UNCHANGED <<cacheVars, cacheObs, state, audio_queue, workers, stats,
                   source_language, target_language, segment_duration,
                   obsVars, limits, returned>>

\* lines 269-270: _update_state(RUNNING), return True
StartRunning(c) ==
    /\ th[c].pc = "start_running"
    /\ th' = [th EXCEPT ![c] =
                UpdChecked(CallUpd(th[c], RUNNING, "start_return_true"))]
    /\ UNCHANGED <<cacheVars, cacheObs, coordVars, obsVars, limits, returned>>

(***************************************************************************)
(* stop_translation.                                                       *)
(***************************************************************************)
\* lines 278-279: the call and _update_state(STOPPING)
CallStop(c) ==
    /\ th[c].pc = "idle"
    /\ MayCall(c, "stop")
    /\ calls' = Append(calls, <<c, "stop", state, Observed>>)
    /\ th' = [th EXCEPT ![c] =
                UpdChecked(CallUpd(th[c], STOPPING, "stop_extraction"))]
    /\ UNCHANGED <<cacheVars, cacheObs, coordVars, state_events,
                   state_changes, error_events, results, enqueued, seg_dur,
                   cb_errors, rec_log, raised, limits, returned>>

\* line 282 and stop_extraction, line 202: self.is_streaming = False
StopExtraction(c) ==
    /\ th[c].pc = "stop_extraction"
    /\ is_streaming' = FALSE
    /\ th' = [th EXCEPT ![c].pc = "stop_put"]
    /\ UNCHANGED <<cacheVars, cacheObs, state, audio_queue, workers, stats,
                   source_language, target_language, segment_duration,
                   obsVars, limits, returned>>

\* line 285: self.audio_queue.put(None)
StopPut(c) ==
    /\ th[c].pc = "stop_put"
    /\ audio_queue' = Append(audio_queue, 0)
    /\ th' = [th EXCEPT ![c].pc = "stop_join"]
    /\ UNCHANGED <<cacheVars, cacheObs, state, workers, stats,
                   source_language, target_language, segment_duration,
                   is_streaming, obsVars, limits, returned>>

\* lines 288-291: worker.join(timeout=5) returns when the worker has
\* exited or when the 5 seconds have passed, whichever is first, so the
\* step does not wait for the worker; then self.workers.clear()
JoinReturns(wpc) == TRUE
WorkersAfterStop(ws) == <<>>

StopJoin(c) ==
    /\ th[c].pc = "stop_join"
    /\ \A i \in 1..Len(workers) : JoinReturns(th[workers[i]].pc)
    /\ workers' = WorkersAfterStop(workers)
    /\ th' = [th EXCEPT ![c].pc = "stop_drain"]
    /\ UNCHANGED <<cacheVars, cacheObs, state, audio_queue, stats,
                   source_language, target_language, segment_duration,
                   is_streaming, obsVars, limits, returned>>

\* lines 294-298: one turn of the loop that empties the queue; line 300
\* is reached when the queue is seen empty
StopDrain(c) ==
    /\ th[c].pc = "stop_drain"
    /\ IF audio_queue # <<>>
         THEN /\ audio_queue' = Tail(audio_queue)
              /\ UNCHANGED th
         ELSE /\ th' = [th EXCEPT ![c] = CallUpd(th[c], STOPPED, "stop_return")]
              /\ UNCHANGED audio_queue
    /\ UNCHANGED <<cacheVars, cacheObs, state, workers, stats,
                   source_language, target_language, segment_duration,
                   is_streaming, obsVars, limits, returned>>

(***************************************************************************)
(* get_stats, reset_stats, configure.                                      *)
(***************************************************************************)
RECURSIVE GCD(_, _)
GCD(a, b) == IF b = 0 THEN a ELSE GCD(b, a % b)
\* the float n / d (d > 0), as the fraction in lowest terms
Ratio(n, d) == <<n \div GCD(n, d), d \div GCD(n, d)>>

\* line 308: stats = self.stats.copy(): a new dict with the same items, not
\* the dict self.stats refers to
StatsCopy_Alias(st) == [shared |-> TRUE, val |-> st]
StatsCopy(st) == [shared |-> FALSE, val |-> st]

\* lines 311-320: the two divisions made when segments_processed > 0; the
\* second raises ZeroDivisionError when total_processing_time is 0
GetStatsRaises(st) ==
    IF st.segments_processed > 0 /\ st.total_processing_time = 0
      THEN "ZeroDivisionError" ELSE ""

\* lines 311-327: the three derived entries
Derived(st) ==
    [avg_processing_time |->
        IF st.segments_processed > 0
          THEN Ratio(st.total_processing_time, st.segments_processed)
          ELSE <<0, 1>>,
     processing_speed_ratio |->
        IF st.segments_processed > 0 /\ st.total_processing_time > 0
          THEN Ratio(st.total_audio_time, st.total_processing_time)
          ELSE <<0, 1>>,
     cache_hit_rate |->
        IF st.cache_hits + st.cache_misses > 0
          THEN Ratio(st.cache_hits, st.cache_hits + st.cache_misses)
          ELSE <<0, 1>>]

\* get_stats, lines 306-329: the copy is taken in one statement, the rest
\* works on the copy
GetStats(c) ==
    /\ th[c].pc = "idle"
    /\ MayCall(c, "get_stats")
    /\ calls' = Append(calls, <<c, "get_stats", state, Observed>>)
    /\ returned' = Some([exc |-> GetStatsRaises(StatsCopy(stats).val),
                         shared |-> StatsCopy(stats).shared,
                         val |-> StatsCopy(stats).val,
                         mutated |-> FALSE,
                         derived |-> Derived(StatsCopy(stats).val)])
    /\ UNCHANGED <<cacheVars, cacheObs, coordVars, th, state_events,
                   state_changes, error_events, results, enqueued, seg_dur,
                   cb_errors, rec_log, raised, limits>>

\* the caller of get_stats writes (once) into the mapping it was given; the
\* write reaches self.stats only if the mapping is that very dict
MutateReturned(c) ==
    /\ th[c].pc = "idle"
    /\ "get_stats" \in limits.methods[c]
    /\ returned # None
    /\ returned[1].exc = ""
    /\ ~returned[1].mutated
    /\ returned' = Some([returned[1] EXCEPT !.val = AddTo(@, "errors", 1),
                                            !.mutated = TRUE])
    /\ stats' = IF returned[1].shared THEN AddTo(stats, "errors", 1) ELSE stats
    /\ UNCHANGED <<cacheVars, cacheObs, state, audio_queue, workers,
                   source_language, target_language, segment_duration,
                   is_streaming, th, obsVars, limits>>

\* reset_stats, lines 331-340: self.stats is bound to a new dict of zeros
ResetStats(c) ==
    /\ th[c].pc = "idle"
    /\ MayCall(c, "reset_stats")
    /\ calls' = Append(calls, <<c, "reset_stats", state, Observed>>)
    /\ stats' = InitStats
    /\ returned' = IF returned = None THEN None
                   ELSE Some([returned[1] EXCEPT !.shared = FALSE])
    /\ UNCHANGED <<cacheVars, cacheObs, state, audio_queue, workers,
                   source_language, target_language, segment_duration,
                   is_streaming, th, state_events, state_changes,
                   error_events, results, enqueued, seg_dur, cb_errors,
                   rec_log, raised, limits>>

\* the truth value of an optional string (live_translator.py line 160: if
\* cached_translation; lines 349, 352: if source_language, if
\* target_language)
Truthy(opt) == opt # None /\ opt[1] # ""

\* the arguments of configure: each is None or a value; the method checks
\* no value, so a segment duration may be any integer
ConfigureArgs ==
    [source_language : {None, Some("ja")},
     target_language : {None, Some("en")},
     segment_duration : {None, Some(0), Some(20), Some(-5)}]

\* lines 349-353: if x: self.x = x, for a string (None and "" are falsy)
Configured(cur, arg) == IF Truthy(arg) THEN arg[1] ELSE cur
\* lines 355-356: if segment_duration: self.segment_duration =
\* segment_duration (None and 0 are falsy, any other integer is taken)
ConfiguredDuration(cur, arg) == IF arg # None /\ arg[1] # 0 THEN arg[1] ELSE cur

\* configure, lines 342-350: the call and the source language
CallConfigure(c) ==
    /\ th[c].pc = "idle"
    /\ MayCall(c, "configure")
    /\ calls' = Append(calls, <<c, "configure", state, Observed>>)
    /\ \E args \in ConfigureArgs :
          /\ source_language' = Configured(source_language, args.source_language)
          /\ th' = [th EXCEPT ![c] =
                      [th[c] EXCEPT !.pc = "cfg_target", !.args = Some(args)]]
    /\ UNCHANGED <<cacheVars, cacheObs, state, audio_queue, workers, stats,
                   target_language, segment_duration, is_streaming,
                   state_events, state_changes, error_events, results,
                   enqueued, seg_dur, cb_errors, rec_log, raised, limits,
                   returned>>

\* configure, lines 352-353
ConfigureTarget(c) ==
    /\ th[c].pc = "cfg_target"
    /\ target_language' = Configured(target_language, th[c].args[1].target_language)
    /\ th' = [th EXCEPT ![c].pc = "cfg_duration"]
    /\ UNCHANGED <<cacheVars, cacheObs, state, audio_queue, workers, stats,
                   source_language, segment_duration, is_streaming, obsVars,
                   limits, returned>>

\* configure, lines 355-362
ConfigureDuration(c) ==
    /\ th[c].pc = "cfg_duration"
    /\ segment_duration' = ConfiguredDuration(segment_duration,
                                           th[c].args[1].segment_duration)
    /\ th' = [th EXCEPT ![c] = [Resume(th[c], "stop_return") EXCEPT !.args = None]]
    /\ UNCHANGED <<cacheVars, cacheObs, state, audio_queue, workers, stats,
                   source_language, target_language, is_streaming, obsVars,
                   limits, returned>>

(***************************************************************************)
(* _audio_processing_worker.                                               *)
(***************************************************************************)
\* line 136: while self.state in [RUNNING, STARTING]
WorkerContinues(cur) == cur \in {RUNNING, STARTING}

WorkerLoop(w) ==
    /\ th[w].pc = "w_loop"
    /\ th' = [th EXCEPT ![w].pc =
                IF WorkerContinues(state) THEN "w_empty" ELSE "exited"]
    /\ UNCHANGED <<cacheVars, cacheObs, coordVars, obsVars, limits, returned>>

\* lines 138, 214-215: if not self.audio_queue.empty() ... else sleep(0.1)
WorkerEmpty(w) ==
    /\ th[w].pc = "w_empty"
    /\ th' = [th EXCEPT ![w].pc =
                IF audio_queue # <<>> THEN "w_get" ELSE "w_loop"]
    /\ UNCHANGED <<cacheVars, cacheObs, coordVars, obsVars, limits, returned>>

\* what a worker notes of a segment for the observation of the run: the
\* (source, target) languages configured when the segment was dequeued, and
\* the languages each later statement read from self
Began(r) == [r EXCEPT !.began = Some(<<source_language, target_language>>),
                      !.used = <<>>]
Used(r, use) == [r EXCEPT !.used = Append(@, use)]

\* lines 139-144: audio_queue.get(timeout=1); the None marker ends the
\* loop; a queue emptied since line 138 makes get raise queue.Empty
WorkerGet(w) ==
    /\ th[w].pc = "w_get"
    /\ IF audio_queue = <<>>
         THEN /\ th' = [th EXCEPT ![w] = CallErr(th[w], "Empty", "w_loop")]
              /\ raised' = Append(raised, <<w, 0>>)
              /\ UNCHANGED audio_queue
         ELSE /\ audio_queue' = Tail(audio_queue)
              /\ th' = [th EXCEPT ![w] =
                          IF Head(audio_queue) = 0
                            THEN [th[w] EXCEPT !.pc = "exited"]
                            ELSE Began([th[w] EXCEPT !.pc = "w_recog",
                                                     !.audio = Head(audio_queue)])]
              /\ UNCHANGED raised
    /\ UNCHANGED <<cacheVars, cacheObs, state, workers, stats,
                   source_language, target_language, segment_duration,
                   is_streaming, state_events, state_changes, error_events,
                   results, enqueued, seg_dur, cb_errors, rec_log, calls,
                   limits, returned>>

\* line 152: if transcription and transcription.strip()
IsBlank(text) == text \in {"", " "}
Recognized_AcceptsBlank(transcription) == transcription # None
Recognized(transcription) ==
    transcription # None /\ ~IsBlank(transcription[1])

\* lines 147-152: transcribe_audio_data returns the text, or None when the
\* recognition failed (speech_recognition.py:73-75); a segment without
\* text is dropped
RecognitionOutcomes ==
    Answers({None, Some(""), Some(" ")} \cup {Some(x) : x \in limits.texts},
            {Some(x) : x \in limits.texts})
RecognitionClass(transcription) ==
    IF transcription = None THEN "failed"
    ELSE IF IsBlank(transcription[1]) THEN "blank" ELSE "text"

WorkerRecognize(w) ==
    /\ th[w].pc = "w_recog"
    /\ \E transcription \in RecognitionOutcomes :
          /\ rec_log' = DictSet(rec_log, th[w].audio, RecognitionClass(transcription))
          /\ th' = [th EXCEPT ![w] =
                      IF Recognized(transcription)
                        THEN Used([th[w] EXCEPT !.pc = "w_cache_get",
                                                !.text = transcription[1]],
                                  <<"recognize", source_language>>)
                        ELSE [th[w] EXCEPT !.pc = "w_loop", !.began = None]]
    /\ UNCHANGED <<cacheVars, cacheObs, coordVars, state_events,
                   state_changes, error_events, results, enqueued, seg_dur,
                   cb_errors, raised, calls, limits, returned>>

\* lines 154-161: translation_cache.get
WorkerCacheGet(w) ==
    LET key == make_key(th[w].text, source_language, target_language)
        cached == CacheGetResult(cache, key)
    IN  /\ th[w].pc = "w_cache_get"
        /\ access_order' = CacheGetOrder(cache, access_order, key)
        /\ th' = [th EXCEPT ![w] =
                    Used(IF Truthy(cached)
                           THEN [th[w] EXCEPT !.pc = "w_hit", !.trans = cached]
                           ELSE [th[w] EXCEPT !.pc = "w_translate"],
                         <<"get", source_language, target_language>>)]
        /\ UNCHANGED <<cache, max_size, cacheObs, coordVars, obsVars, limits,
                       returned>>

\* line 162: self.stats["cache_hits"] += 1
WorkerHit(w) ==
    /\ th[w].pc = "w_hit"
    /\ stats' = AddTo(stats, "cache_hits", 1)
    /\ th' = [th EXCEPT ![w].pc = "w_deliver"]
    /\ UNCHANGED <<cacheVars, cacheObs, state, audio_queue, workers,
                   source_language, target_language, segment_duration,
                   is_streaming, obsVars, limits, returned>>

\* lines 165-171: translate_text returns the text the backend answered
\* (translator.py:166, 185: any str, the empty one included), or None when
\* the translation failed (translator.py:115-117)
TranslationOutcomes(text, target_lang) ==
    Answers({None, Some(""), Some(Translated(text, target_lang))},
            {Some(Translated(text, target_lang))})

WorkerTranslate(w) ==
    /\ th[w].pc = "w_translate"
    /\ \E translation \in TranslationOutcomes(th[w].text, target_language) :
          th' = [th EXCEPT ![w] =
                   Used([th[w] EXCEPT !.trans = translation,
                                      !.pc = IF Truthy(translation)
                                               THEN "w_cache_set" ELSE "w_miss"],
                        <<"translate", source_language, target_language>>)]
    /\ UNCHANGED <<cacheVars, cacheObs, coordVars, obsVars, limits, returned>>

\* lines 172-177: translation_cache.set
WorkerCacheSet(w) ==
    LET key == make_key(th[w].text, source_language, target_language) IN
    /\ th[w].pc = "w_cache_set"
    /\ cache' = CacheSetCache(cache, access_order, max_size, key, th[w].trans[1])
    /\ access_order' = CacheSetOrder(cache, access_order, max_size, key)
    /\ th' = [th EXCEPT ![w] =
                Used([th[w] EXCEPT !.pc = "w_miss"],
                     <<"set", source_language, target_language>>)]
    /\ UNCHANGED <<max_size, cacheObs, coordVars, obsVars, limits, returned>>

\* line 179: self.stats["cache_misses"] += 1
WorkerMiss(w) ==
    /\ th[w].pc = "w_miss"
    /\ stats' = AddTo(stats, "cache_misses", 1)
    /\ th' = [th EXCEPT ![w].pc = "w_deliver"]
    /\ UNCHANGED <<cacheVars, cacheObs, state, audio_queue, workers,
                   source_language, target_language, segment_duration,
                   is_streaming, obsVars, limits, returned>>

\* translator.py lines 252-283, get_translation_confidence: 0.0 when either
\* text is blank, else 0.7 * (shorter length / longer length); the score
\* is the fraction <<numerator, denominator>>
Min(a, b) == IF a <= b THEN a ELSE b
Max(a, b) == IF a >= b THEN a ELSE b
\* line 279: min(confidence, 1.0)
AtMostOne(score) == IF score[1] > score[2] THEN <<1, 1>> ELSE score
Confidence_BaseScore(original, translated) ==
    IF IsBlank(original) THEN <<0, 1>> ELSE <<7, 10>>
Confidence_Unscaled(original, translated) ==
    IF IsBlank(original) \/ IsBlank(translated)
      THEN <<0, 1>>
      ELSE AtMostOne(<<Min(Len(original), Len(translated)),
                       Max(Len(original), Len(translated))>>)
Confidence(original, translated) ==
    IF IsBlank(original) \/ IsBlank(translated)
      THEN <<0, 1>>
      ELSE AtMostOne(<<7 * Min(Len(original), Len(translated)),
                       10 * Max(Len(original), Len(translated))>>)

\* line 184: translation or ""
OrEmpty(opt) == IF Truthy(opt) THEN opt[1] ELSE ""

\* lines 182-201: the TranscriptionResult is built and handed to
\* transcription_callback
WorkerDeliver(w) ==
    /\ th[w].pc = "w_deliver"
    /\ results' = Append(results,
                         [segment |-> th[w].audio,
                          original_text |-> th[w].text,
                          translated_text |-> th[w].trans,
                          confidence |-> Confidence(th[w].text, OrEmpty(th[w].trans)),
                          language |-> source_language])
    /\ \E outcome \in CallbackOutcomes :
          /\ th' = [th EXCEPT ![w] = AfterCallback(th[w], outcome, "w_stats")]
          /\ cb_errors' = CallbackLogged(cb_errors, outcome, "transcription")
    /\ UNCHANGED <<cacheVars, cacheObs, coordVars, state_events,
                   state_changes, error_events, enqueued, seg_dur, rec_log,
                   raised, calls, limits, returned>>

\* lines 204-205: processing_time = time.time() - start_time;
\* self.stats["segments_processed"] += 1
WorkerStats(w) ==
    /\ th[w].pc = "w_stats"
    /\ stats' = AddTo(stats, "segments_processed", 1)
    /\ \E processing_time \in limits.times :
          th' = [th EXCEPT ![w] =
                   [th[w] EXCEPT !.pc = "w_stats_time", !.dur = processing_time]]
    /\ UNCHANGED <<cacheVars, cacheObs, state, audio_queue, workers,
                   source_language, target_language, segment_duration,
                   is_streaming, obsVars, limits, returned>>

\* line 206: self.stats["total_processing_time"] += processing_time
WorkerStatsTime(w) ==
    /\ th[w].pc = "w_stats_time"
    /\ stats' = AddTo(stats, "total_processing_time", th[w].dur)
    /\ th' = [th EXCEPT ![w].pc = "w_stats_audio"]
    /\ UNCHANGED <<cacheVars, cacheObs, state, audio_queue, workers,
                   source_language, target_language, segment_duration,
                   is_streaming, obsVars, limits, returned>>

\* line 207: self.stats["total_audio_time"] += self.segment_duration
WorkerStatsAudio(w) ==
    /\ th[w].pc = "w_stats_audio"
    /\ stats' = AddTo(stats, "total_audio_time", segment_duration)
    /\ th' = [th EXCEPT ![w] =
                [th[w] EXCEPT !.pc = "w_loop", !.audio = 0, !.text = "",
                              !.trans = None, !.dur = 0, !.began = None,
                              !.used = <<>>]]
    /\ UNCHANGED <<cacheVars, cacheObs, state, audio_queue, workers,
                   source_language, target_language, segment_duration,
                   is_streaming, obsVars, limits, returned>>

\* lines 217-219: an exception escapes one of the calls of the try body
\* made for a dequeued segment (recognition, cache get, translation, cache
\* set, confidence) and is handed to _handle_error; sleep(1), next turn
RaisingCalls == {"w_recog", "w_cache_get", "w_translate", "w_cache_set", "w_deliver"}

WorkerRaise(w) ==
    /\ th[w].pc \in RaisingCalls
    /\ MayRaise
    /\ raised' = Append(raised, <<w, th[w].audio>>)
    /\ th' = [th EXCEPT ![w] = CallErr(th[w], "processing", "w_loop")]
    /\ UNCHANGED <<cacheVars, cacheObs, coordVars, state_events,
                   state_changes, error_events, results, enqueued, seg_dur,
                   cb_errors, rec_log, calls, limits, returned>>

(***************************************************************************)
(* The extraction loop of start_continuous_extraction and _audio_callback. *)
(***************************************************************************)
\* youtube_extractor.py line 178: while self.is_streaming
ExtractorLoop(e) ==
    /\ th[e].pc = "ex_loop"
    /\ th' = [th EXCEPT ![e].pc = IF is_streaming THEN "ex_extract" ELSE "exited"]
    /\ UNCHANGED <<cacheVars, cacheObs, coordVars, obsVars, limits, returned>>

\* speech_recognition.py lines 150-178, is_speech_detected: the RMS of the
\* segment is above the threshold ("speech") or not ("silent"), or the
\* computation raises ("error"), which is caught at line 176 and answered
\* with True
VadOutcomes == Answers({"speech", "silent", "error"}, {"speech", "silent"})
SpeechDetected(check) == check \in {"speech", "error"}

\* lines 180-193 and _audio_callback, live_translator.py lines 221-231:
\* one turn of the loop, in which extract_audio_segment gives audio data or
\* none and is_speech_detected gives check: the segment is put on the
\* queue when is_speech_detected answers True; segments are numbered in
\* the order they are put
ExtractorTurn(e, audio_data, check) ==
    /\ th[e].pc = "ex_extract"
    /\ IF audio_data /\ SpeechDetected(check)
         THEN /\ MayEnqueue
              /\ enqueued' = enqueued + 1
              /\ seg_dur' = Append(seg_dur, th[e].dur)
              /\ audio_queue' = Append(audio_queue, enqueued + 1)
         ELSE UNCHANGED <<enqueued, seg_dur, audio_queue>>
    /\ th' = [th EXCEPT ![e].pc = "ex_loop"]
    /\ UNCHANGED <<cacheVars, cacheObs, state, workers, stats,
                   source_language, target_language, segment_duration,
                   is_streaming, state_events, state_changes, error_events,
                   results, cb_errors, rec_log, raised, calls, limits,
                   returned>>

ExtractorSegment(e) ==
    \E audio_data \in BOOLEAN, check \in VadOutcomes :
        ExtractorTurn(e, audio_data, check)

(***************************************************************************)
(* The coordinator with its threads.  Spec: the API is called from one     *)
(* thread, one call after the other.  ConcSpec: one thread starts while    *)
(* another stops.                                                          *)
(* RunSpec: one call, and up to RunSegs segments after it.                 *)
(***************************************************************************)
\* who calls what: one thread making every call, or one thread that starts
\* while another stops
Methods == {"start", "stop", "get_stats", "reset_stats", "configure"}
OneCaller == [c \in Callers |-> IF c = 1 THEN Methods ELSE {}]
TwoCallers == [c \in Callers |-> IF c = 1 THEN Methods \ {"stop"} ELSE {"stop"}]

Next ==
    \/ \E t \in DOMAIN th : CallStart(t)
    \/ \E t \in DOMAIN th : StartValidate(t)
    \/ \E t \in DOMAIN th : StartSpawn(t)
    \/ \E t \in DOMAIN th : StartExtract(t)
    \/ \E t \in DOMAIN th : StartRunning(t)
    \/ \E t \in DOMAIN th : CallStop(t)
    \/ \E t \in DOMAIN th : StopExtraction(t)
    \/ \E t \in DOMAIN th : StopPut(t)
    \/ \E t \in DOMAIN th : StopJoin(t)
    \/ \E t \in DOMAIN th : StopDrain(t)
    \/ \E t \in DOMAIN th : GetStats(t)
    \/ \E t \in DOMAIN th : MutateReturned(t)
    \/ \E t \in DOMAIN th : ResetStats(t)
    \/ \E t \in DOMAIN th : CallConfigure(t)
    \/ \E t \in DOMAIN th : ConfigureTarget(t)
    \/ \E t \in DOMAIN th : ConfigureDuration(t)
    \/ \E t \in DOMAIN th : UpdCheck(t)
    \/ \E t \in DOMAIN th : UpdWrite(t)
    \/ \E t \in DOMAIN th : UpdCallback(t)
    \/ \E t \in DOMAIN th : ErrCount(t)
    \/ \E t \in DOMAIN th : ErrCallback(t)
    \/ \E t \in DOMAIN th : WorkerLoop(t)
    \/ \E t \in DOMAIN th : WorkerEmpty(t)
    \/ \E t \in DOMAIN th : WorkerGet(t)
    \/ \E t \in DOMAIN th : WorkerRecognize(t)
    \/ \E t \in DOMAIN th : WorkerCacheGet(t)
    \/ \E t \in DOMAIN th : WorkerHit(t)
    \/ \E t \in DOMAIN th : WorkerTranslate(t)
    \/ \E t \in DOMAIN th : WorkerCacheSet(t)
    \/ \E t \in DOMAIN th : WorkerMiss(t)
    \/ \E t \in DOMAIN th : WorkerDeliver(t)
    \/ \E t \in DOMAIN th : WorkerStats(t)
    \/ \E t \in DOMAIN th : WorkerStatsTime(t)
    \/ \E t \in DOMAIN th : WorkerStatsAudio(t)
    \/ \E t \in DOMAIN th : WorkerRaise(t)
    \/ \E t \in DOMAIN th : ExtractorLoop(t)
    \/ \E t \in DOMAIN th : ExtractorSegment(t)

Init ==
    /\ LiveTranslatorInit
    /\ limits = [methods |-> OneCaller, calls |-> MaxEvents,
                 segs |-> MaxEvents, raises |-> MaxEvents,
                 events |-> MaxEvents, texts |-> RecognizedTexts,
                 callbacks |-> MaxEvents, fails |-> TRUE,
                 times |-> ProcessingTimes]

Spec == Init /\ [][Next]_vars

ConcInit ==
    /\ LiveTranslatorInit
    /\ limits = [methods |-> TwoCallers, calls |-> ConcCalls,
                 segs |-> MaxEvents, raises |-> MaxEvents,
                 events |-> MaxEvents, texts |-> RecognizedTexts,
                 callbacks |-> 0, fails |-> TRUE,
                 times |-> ProcessingTimes]

ConcSpec == ConcInit /\ [][Next]_vars

RunInit ==
    /\ LiveTranslatorInit
    /\ limits = [methods |-> OneCaller, calls |-> 1, segs |-> RunSegs,
                 raises |-> 1, events |-> RunSegs + 1,
                 texts |-> RecognizedTexts, callbacks |-> 0, fails |-> TRUE,
                 times |-> ProcessingTimes]

RunSpec == RunInit /\ [][Next]_vars

\* PassSpec: a coordinator constructed with cache_size = MaxCap; one call,
\* and up to PassSegs segments in which any of Texts is recognized
PassInit ==
    /\ LiveTranslatorNew(MaxCap)
    /\ limits = [methods |-> OneCaller, calls |-> 1, segs |-> PassSegs,
                 raises |-> 1, events |-> PassSegs + 1, texts |-> Texts,
                 callbacks |-> 0, fails |-> TRUE,
                 times |-> ProcessingTimes]

PassSpec == PassInit /\ [][Next]_vars

\* RestartSpec: the client only starts and stops, up to RestartCalls times,
\* and up to RestartSegs segments are put on the queue; no collaborator and
\* no callback raises
StartStop == [c \in Callers |-> IF c = 1 THEN {"start", "stop"} ELSE {}]

RestartNext ==
    \/ \E t \in DOMAIN th : CallStart(t)
    \/ \E t \in DOMAIN th : StartValidate(t)
    \/ \E t \in DOMAIN th : StartSpawn(t)
    \/ \E t \in DOMAIN th : StartExtract(t)
    \/ \E t \in DOMAIN th : StartRunning(t)
    \/ \E t \in DOMAIN th : CallStop(t)
    \/ \E t \in DOMAIN th : StopExtraction(t)
    \/ \E t \in DOMAIN th : StopPut(t)
    \/ \E t \in DOMAIN th : StopJoin(t)
    \/ \E t \in DOMAIN th : StopDrain(t)
    \/ \E t \in DOMAIN th : UpdCheck(t)
    \/ \E t \in DOMAIN th : UpdWrite(t)
    \/ \E t \in DOMAIN th : UpdCallback(t)
    \/ \E t \in DOMAIN th : ErrCount(t)
    \/ \E t \in DOMAIN th : ErrCallback(t)
    \/ \E t \in DOMAIN th : WorkerLoop(t)
    \/ \E t \in DOMAIN th : WorkerEmpty(t)
    \/ \E t \in DOMAIN th : WorkerGet(t)
    \/ \E t \in DOMAIN th : WorkerRecognize(t)
    \/ \E t \in DOMAIN th : WorkerCacheGet(t)
    \/ \E t \in DOMAIN th : WorkerHit(t)
    \/ \E t \in DOMAIN th : WorkerTranslate(t)
    \/ \E t \in DOMAIN th : WorkerCacheSet(t)
    \/ \E t \in DOMAIN th : WorkerMiss(t)
    \/ \E t \in DOMAIN th : WorkerDeliver(t)
    \/ \E t \in DOMAIN th : WorkerStats(t)
    \/ \E t \in DOMAIN th : WorkerStatsTime(t)
    \/ \E t \in DOMAIN th : WorkerStatsAudio(t)
    \/ \E t \in DOMAIN th : ExtractorLoop(t)
    \/ \E t \in DOMAIN th : ExtractorSegment(t)

RestartInit ==
    /\ LiveTranslatorInit
    /\ limits = [methods |-> StartStop, calls |-> RestartCalls,
                 segs |-> RestartSegs, raises |-> 0,
                 events |-> RestartCalls + RestartSegs,
                 texts |-> {"hello"}, callbacks |-> 0, fails |-> FALSE,
                 times |-> {2}]

RestartSpec == RestartInit /\ [][RestartNext]_vars

(***************************************************************************)
(* The statistics of a segment when two workers run.  The statement        *)
(* self.stats[k] += v is a load of the item, an addition and a store, and   *)
(* the interpreter can switch threads between the load and the store; the  *)
(* worker keeps the loaded value in args.  With one worker the two steps   *)
(* are the one step of WorkerHit, WorkerMiss, WorkerStats, WorkerStatsTime *)
(* and WorkerStatsAudio.                                                   *)
(***************************************************************************)
\* the item each of lines 162, 179, 205, 206, 207 adds to
CounterAt ==
    [w_hit |-> "cache_hits", w_miss |-> "cache_misses",
     w_stats |-> "segments_processed",
     w_stats_time |-> "total_processing_time",
     w_stats_audio |-> "total_audio_time"]

\* the load of self.stats[k]
WorkerLoadCounter(w) ==
    /\ th[w].pc \in DOMAIN CounterAt
    /\ th[w].args = None
    /\ th' = [th EXCEPT ![w].args = Some(stats[CounterAt[th[w].pc]])]
    /\ UNCHANGED <<cacheVars, cacheObs, coordVars, obsVars, limits, returned>>

\* line 162: the store of cache_hits
WorkerHitStore(w) ==
    /\ th[w].pc = "w_hit"
    /\ th[w].args # None
    /\ stats' = Incremented(stats, "cache_hits", th[w].args[1], 1)
    /\ th' = [th EXCEPT ![w] = [th[w] EXCEPT !.pc = "w_deliver", !.args = None]]
    /\ UNCHANGED <<cacheVars, cacheObs, state, audio_queue, workers,
                   source_language, target_language, segment_duration,
                   is_streaming, obsVars, limits, returned>>

\* line 179: the store of cache_misses
WorkerMissStore(w) ==
    /\ th[w].pc = "w_miss"
    /\ th[w].args # None
    /\ stats' = Incremented(stats, "cache_misses", th[w].args[1], 1)
    /\ th' = [th EXCEPT ![w] = [th[w] EXCEPT !.pc = "w_deliver", !.args = None]]
    /\ UNCHANGED <<cacheVars, cacheObs, state, audio_queue, workers,
                   source_language, target_language, segment_duration,
                   is_streaming, obsVars, limits, returned>>

\* lines 204-205: processing_time, and the store of segments_processed
WorkerStatsStore(w) ==
    /\ th[w].pc = "w_stats"
    /\ th[w].args # None
    /\ stats' = Incremented(stats, "segments_processed", th[w].args[1], 1)
    /\ \E processing_time \in limits.times :
          th' = [th EXCEPT ![w] =
                   [th[w] EXCEPT !.pc = "w_stats_time", !.dur = processing_time,
                                 !.args = None]]
    /\ UNCHANGED <<cacheVars, cacheObs, state, audio_queue, workers,
                   source_language, target_language, segment_duration,
                   is_streaming, obsVars, limits, returned>>

\* line 206: the store of total_processing_time
WorkerStatsTimeStore(w) ==
    /\ th[w].pc = "w_stats_time"
    /\ th[w].args # None
    /\ stats' = Incremented(stats, "total_processing_time", th[w].args[1],
                            th[w].dur)
    /\ th' = [th EXCEPT ![w] =
                [th[w] EXCEPT !.pc = "w_stats_audio", !.args = None]]
    /\ UNCHANGED <<cacheVars, cacheObs, state, audio_queue, workers,
                   source_language, target_language, segment_duration,
                   is_streaming, obsVars, limits, returned>>

\* line 207: the store of total_audio_time
WorkerStatsAudioStore(w) ==
    /\ th[w].pc = "w_stats_audio"
    /\ th[w].args # None
    /\ stats' = Incremented(stats, "total_audio_time", th[w].args[1],
                            segment_duration)
    /\ th' = [th EXCEPT ![w] =
                [th[w] EXCEPT !.pc = "w_loop", !.audio = 0, !.text = "",
                              !.trans = None, !.dur = 0, !.began = None,
                              !.used = <<>>, !.args = None]]
    /\ UNCHANGED <<cacheVars, cacheObs, state, audio_queue, workers,
                   source_language, target_language, segment_duration,
                   is_streaming, obsVars, limits, returned>>

\* RaceSpec: two threads call start_translation, each at most once, and
\* up to RaceSegs segments are put on the queue; no collaborator and no
\* callback raises
TwoStarters == [c \in Callers |-> {"start"}]

RaceNext ==
    \/ \E t \in DOMAIN th : CallStart(t)
    \/ \E t \in DOMAIN th : StartValidate(t)
    \/ \E t \in DOMAIN th : StartSpawn(t)
    \/ \E t \in DOMAIN th : StartExtract(t)
    \/ \E t \in DOMAIN th : StartRunning(t)
    \/ \E t \in DOMAIN th : UpdCheck(t)
    \/ \E t \in DOMAIN th : UpdWrite(t)
    \/ \E t \in DOMAIN th : UpdCallback(t)
    \/ \E t \in DOMAIN th : ErrCount(t)
    \/ \E t \in DOMAIN th : ErrCallback(t)
    \/ \E t \in DOMAIN th : WorkerLoop(t)
    \/ \E t \in DOMAIN th : WorkerEmpty(t)
    \/ \E t \in DOMAIN th : WorkerGet(t)
    \/ \E t \in DOMAIN th : WorkerRecognize(t)
    \/ \E t \in DOMAIN th : WorkerCacheGet(t)
    \/ \E t \in DOMAIN th : WorkerHit(t)
    \/ \E t \in DOMAIN th : WorkerTranslate(t)
    \/ \E t \in DOMAIN th : WorkerCacheSet(t)
    \/ \E t \in DOMAIN th : WorkerMiss(t)
    \/ \E t \in DOMAIN th : WorkerDeliver(t)
    \/ \E t \in DOMAIN th : WorkerStats(t)
    \/ \E t \in DOMAIN th : WorkerStatsTime(t)
    \/ \E t \in DOMAIN th : WorkerStatsAudio(t)
    \/ \E t \in DOMAIN th : ExtractorLoop(t)
    \/ \E t \in DOMAIN th : ExtractorSegment(t)

RaceInit ==
    /\ LiveTranslatorInit
    /\ limits = [methods |-> TwoStarters, calls |-> 2, segs |-> RaceSegs,
                 raises |-> 0, events |-> 2 + RaceSegs,
                 texts |-> {"hello"}, callbacks |-> 0, fails |-> FALSE,
                 times |-> {2}]

RaceSpec == RaceInit /\ [][RaceNext]_vars

\* CounterSpec: the two workers and the two extraction loops of two
\* start_translation calls that both succeeded (a state RaceSpec reaches),
\* with the statistics of lines 162, 179 and 205-207 as loads and stores
BothStarted ==
    /\ cache = EmptyDict
    /\ access_order = <<>>
    /\ max_size = CacheSize
    /\ cache_calls = <<>>
    /\ last_use = EmptyDict
    /\ cache_exc = ""
    /\ state = RUNNING
    /\ audio_queue = <<>>
    /\ workers = <<11, 12>>
    /\ stats = InitStats
    /\ source_language = "en"
    /\ target_language = "ja"
    /\ segment_duration = 10
    /\ is_streaming = TRUE
    /\ th = [t \in {1, 2, 11, 12, 21, 22} |->
               IF t \in Callers
                 THEN [NewThread("idle") EXCEPT !.new_state = RUNNING,
                                                !.upd_ret = "start_return_true",
                                                !.ret = "True"]
               ELSE IF t \in {11, 12} THEN NewThread("w_loop")
               ELSE [NewThread("ex_loop") EXCEPT !.dur = 10]]
    /\ state_events = <<STARTING, RUNNING, STARTING>>
    /\ state_changes = <<STARTING, RUNNING>>
    /\ error_events = <<>>
    /\ results = <<>>
    /\ enqueued = 0
    /\ seg_dur = <<>>
    /\ cb_errors = <<>>
    /\ rec_log = EmptyDict
    /\ raised = <<>>
    /\ calls = [i \in 1..2 |->
                  <<i, "start", STOPPED,
                    [state_events |-> 0, error_events |-> 0, errors |-> 0,
                     threads |-> Callers, live |-> {},
                     is_streaming |-> FALSE]>>]
    /\ returned = None

CounterNext ==
    \/ \E t \in DOMAIN th : UpdCheck(t)
    \/ \E t \in DOMAIN th : UpdWrite(t)
    \/ \E t \in DOMAIN th : UpdCallback(t)
    \/ \E t \in DOMAIN th : ErrCount(t)
    \/ \E t \in DOMAIN th : ErrCallback(t)
    \/ \E t \in DOMAIN th : WorkerLoop(t)
    \/ \E t \in DOMAIN th : WorkerEmpty(t)
    \/ \E t \in DOMAIN th : WorkerGet(t)
    \/ \E t \in DOMAIN th : WorkerRecognize(t)
    \/ \E t \in DOMAIN th : WorkerCacheGet(t)
    \/ \E t \in DOMAIN th : WorkerLoadCounter(t)
    \/ \E t \in DOMAIN th : WorkerHitStore(t)
    \/ \E t \in DOMAIN th : WorkerTranslate(t)
    \/ \E t \in DOMAIN th : WorkerCacheSet(t)
    \/ \E t \in DOMAIN th : WorkerMissStore(t)
    \/ \E t \in DOMAIN th : WorkerDeliver(t)
    \/ \E t \in DOMAIN th : WorkerStatsStore(t)
    \/ \E t \in DOMAIN th : WorkerStatsTimeStore(t)
    \/ \E t \in DOMAIN th : WorkerStatsAudioStore(t)
    \/ \E t \in DOMAIN th : ExtractorLoop(t)
    \/ \E t \in DOMAIN th : ExtractorSegment(t)

CounterInit ==
    /\ BothStarted
    /\ limits = [methods |-> TwoStarters, calls |-> 2, segs |-> RaceSegs,
                 raises |-> 0, events |-> 2 + RaceSegs,
                 texts |-> {"hello"}, callbacks |-> 0, fails |-> FALSE,
                 times |-> {2}]

CounterSpec == CounterInit /\ [][CounterNext]_vars

(***************************************************************************)
(* Translator.get_translation_confidence called once, on any two of        *)
(* ConfidenceTexts.                                                        *)
(***************************************************************************)
\* blank and non-blank texts of several lengths, with and without spaces
\* around them
ConfidenceTexts ==
    {"", " ", "a", "ab", " hi ", "hello", "ja:hello", "hello world"}

ConfidenceInit ==
    /\ LiveTranslatorInit
    /\ limits \in [original : ConfidenceTexts, translated : ConfidenceTexts]

\* translator.py lines 252-283: the call returns the score
GetTranslationConfidence ==
    /\ returned = None
    /\ returned' = Some([original |-> limits.original,
                         translated |-> limits.translated,
                         confidence |-> Confidence(limits.original,
                                                   limits.translated)])
    /\ UNCHANGED <<cacheVars, cacheObs, coordVars, th, obsVars, limits>>

ConfidenceNext == GetTranslationConfidence

ConfidenceSpec == ConfidenceInit /\ [][ConfidenceNext]_vars

(***************************************************************************)
(* A stand-alone TranslationCache driven by a single caller.               *)
(***************************************************************************)
CacheInit ==
    /\ cache = EmptyDict
    /\ access_order = <<>>
    /\ max_size \in 1..MaxCap
    /\ cache_calls = <<>>
    /\ last_use = EmptyDict
    /\ cache_exc = ""
    /\ state = STOPPED
    /\ audio_queue = <<>>
    /\ workers = <<>>
    /\ stats = InitStats
    /\ source_language = "en"
    /\ target_language = "ja"
    /\ segment_duration = 10
    /\ is_streaming = FALSE
    /\ th = [c \in Callers |-> NewThread("idle")]
    /\ state_events = <<>>
    /\ state_changes = <<>>
    /\ error_events = <<>>
    /\ results = <<>>
    /\ enqueued = 0
    /\ seg_dur = <<>>
    /\ cb_errors = <<>>
    /\ rec_log = EmptyDict
    /\ raised = <<>>
    /\ calls = <<>>
    /\ returned = None
    /\ limits = [methods |-> [c \in Callers |-> {}], calls |-> 0,
                 segs |-> 0, raises |-> 0, events |-> 0, texts |-> {},
                 callbacks |-> 0, fails |-> TRUE,
                 times |-> ProcessingTimes]

\* TranslationCache.get(text, source_lang, target_lang)
CacheGet(text, sl, tl) ==
    LET key == make_key(text, sl, tl) IN
    /\ Len(cache_calls) < MaxCacheOps
    /\ cache_exc = ""
    /\ cache_exc' = CacheGetRaises(cache, access_order, key)
    /\ access_order' = CacheGetOrder(cache, access_order, key)
    /\ cache_calls' = Append(cache_calls,
                             <<"get", key, CacheGetResult(cache, key),
                               <<text, sl, tl>>>>)
    /\ last_use' = IF key \in DOMAIN cache
                     THEN DictSet(last_use, key, Len(cache_calls) + 1)
                     ELSE last_use
    /\ UNCHANGED <<cache, max_size, coordVars, th, obsVars, limits, returned>>

\* TranslationCache.set(text, source_lang, target_lang, translation)
CacheSet(text, sl, tl, translation) ==
    LET key == make_key(text, sl, tl) IN
    /\ Len(cache_calls) < MaxCacheOps
    /\ cache_exc = ""
    /\ cache_exc' = CacheSetRaises(cache, access_order, max_size, key)
    /\ CASE cache_exc' = "" ->
              /\ cache' = CacheSetCache(cache, access_order, max_size, key, translation)
              /\ access_order' = CacheSetOrder(cache, access_order, max_size, key)
         [] cache_exc' = "KeyError" ->
              /\ access_order' = Tail(access_order)
              /\ UNCHANGED cache
         [] OTHER -> UNCHANGED <<cache, access_order>>
    /\ cache_calls' = Append(cache_calls,
                             <<"set", key, Some(translation),
                               <<text, sl, tl>>>>)
    /\ last_use' = IF key \in DOMAIN cache
                     THEN last_use
                     ELSE DictSet(last_use, key, Len(cache_calls) + 1)
    /\ UNCHANGED <<max_size, coordVars, th, obsVars, limits, returned>>

\* TranslationCache.clear()
CacheClear ==
    /\ Len(cache_calls) < MaxCacheOps
    /\ cache_exc = ""
    /\ cache' = EmptyDict
    /\ access_order' = <<>>
    /\ cache_calls' = Append(cache_calls, <<"clear", "", None>>)
    /\ UNCHANGED <<max_size, last_use, cache_exc, coordVars, th, obsVars, limits, returned>>

CacheNext ==
    \/ \E t \in Texts, p \in LangPairs : CacheGet(t, p[1], p[2])
    \/ \E t \in Texts, p \in LangPairs, v \in Translations : CacheSet(t, p[1], p[2], v)
    \/ CacheClear

CacheSpec == CacheInit /\ [][CacheNext]_vars

(***************************************************************************)
(* A TranslationCache shared by two threads that call get, set and clear   *)
(* with no lock around the calls: the threads interleave between the       *)
(* statements of the three methods.  The thread keeps key, translation and *)
(* oldest_key in its text, trans and msg fields.                           *)
(***************************************************************************)
ConcKeys == {make_key(t, "en", "ja") : t \in RecognizedTexts}
cacheRest == <<max_size, last_use, coordVars, obsVars, limits, returned>>

\* a method ends: by returning, or by the exception exc
CacheReturn(r) == [r EXCEPT !.pc = "idle", !.text = "", !.trans = None, !.msg = ""]

MayCallCache(c) ==
    /\ th[c].pc = "idle"
    /\ Len(cache_calls) < MaxConcCacheOps
    /\ cache_exc = ""

\* get, lines 300-302 and 308: the call, and if key in self.cache
ConcGetCall(c) ==
    /\ MayCallCache(c)
    /\ \E key \in ConcKeys :
          /\ cache_calls' = Append(cache_calls, <<"get", key, None>>)
          /\ th' = [th EXCEPT ![c] =
                      IF key \in DOMAIN cache
                        THEN [th[c] EXCEPT !.pc = "get_remove", !.text = key]
                        ELSE CacheReturn(th[c])]
    /\ UNCHANGED <<cache, access_order, cache_exc, cacheRest>>

\* get, line 304: self.access_order.remove(key)
ConcGetRemove(c) ==
    /\ th[c].pc = "get_remove"
    /\ IF ListHas(access_order, th[c].text)
         THEN /\ access_order' = ListRemove(access_order, th[c].text)
              /\ th' = [th EXCEPT ![c].pc = "get_append"]
              /\ UNCHANGED cache_exc
         ELSE /\ cache_exc' = "ValueError"
              /\ th' = [th EXCEPT ![c] = CacheReturn(th[c])]
              /\ UNCHANGED access_order
    /\ UNCHANGED <<cache, cache_calls, cacheRest>>

\* get, line 305: self.access_order.append(key)
ConcGetAppend(c) ==
    /\ th[c].pc = "get_append"
    /\ access_order' = Append(access_order, th[c].text)
    /\ th' = [th EXCEPT ![c].pc = "get_return"]
    /\ UNCHANGED <<cache, cache_calls, cache_exc, cacheRest>>

\* get, line 306: return self.cache[key]
ConcGetReturn(c) ==
    /\ th[c].pc = "get_return"
    /\ cache_exc' = IF th[c].text \in DOMAIN cache THEN cache_exc ELSE "KeyError"
    /\ th' = [th EXCEPT ![c] = CacheReturn(th[c])]
    /\ UNCHANGED <<cache, access_order, cache_calls, cacheRest>>

\* set, lines 312-315: the call, and the test for an eviction
ConcSetCall(c) ==
    /\ MayCallCache(c)
    /\ \E key \in ConcKeys, translation \in Translations :
          /\ cache_calls' = Append(cache_calls, <<"set", key, Some(translation)>>)
          /\ th' = [th EXCEPT ![c] =
                      [th[c] EXCEPT !.text = key, !.trans = Some(translation),
                                    !.pc = IF CacheSetEvicts(cache, max_size, key)
                                             THEN "set_pop" ELSE "set_store"]]
    /\ UNCHANGED <<cache, access_order, cache_exc, cacheRest>>

\* set, line 317: oldest_key = self.access_order.pop(0)
ConcSetPop(c) ==
    /\ th[c].pc = "set_pop"
    /\ IF access_order # <<>>
         THEN /\ access_order' = Tail(access_order)
              /\ th' = [th EXCEPT ![c] =
                          [th[c] EXCEPT !.pc = "set_del", !.msg = Head(access_order)]]
              /\ UNCHANGED cache_exc
         ELSE /\ cache_exc' = "IndexError"
              /\ th' = [th EXCEPT ![c] = CacheReturn(th[c])]
              /\ UNCHANGED access_order
    /\ UNCHANGED <<cache, cache_calls, cacheRest>>

\* set, line 318: del self.cache[oldest_key]
ConcSetDel(c) ==
    /\ th[c].pc = "set_del"
    /\ IF th[c].msg \in DOMAIN cache
         THEN /\ cache' = DictDel(cache, th[c].msg)
              /\ th' = [th EXCEPT ![c].pc = "set_store"]
              /\ UNCHANGED cache_exc
         ELSE /\ cache_exc' = "KeyError"
              /\ th' = [th EXCEPT ![c] = CacheReturn(th[c])]
              /\ UNCHANGED cache
    /\ UNCHANGED <<access_order, cache_calls, cacheRest>>

\* set, line 320: self.cache[key] = translation
ConcSetStore(c) ==
    /\ th[c].pc = "set_store"
    /\ cache' = DictSet(cache, th[c].text, th[c].trans[1])
    /\ th' = [th EXCEPT ![c].pc = "set_check"]
    /\ UNCHANGED <<access_order, cache_calls, cache_exc, cacheRest>>

\* set, line 322: if key not in self.access_order
ConcSetCheck(c) ==
    /\ th[c].pc = "set_check"
    /\ th' = [th EXCEPT ![c] =
                IF ListHas(access_order, th[c].text)
                  THEN CacheReturn(th[c])
                  ELSE [th[c] EXCEPT !.pc = "set_append"]]
    /\ UNCHANGED <<cache, access_order, cache_calls, cache_exc, cacheRest>>

\* set, line 323: self.access_order.append(key)
ConcSetAppend(c) ==
    /\ th[c].pc = "set_append"
    /\ access_order' = Append(access_order, th[c].text)
    /\ th' = [th EXCEPT ![c] = CacheReturn(th[c])]
    /\ UNCHANGED <<cache, cache_calls, cache_exc, cacheRest>>

\* clear, lines 325-327: the call and self.cache.clear()
ConcClearCall(c) ==
    /\ MayCallCache(c)
    /\ cache_calls' = Append(cache_calls, <<"clear", "", None>>)
    /\ cache' = EmptyDict
    /\ th' = [th EXCEPT ![c].pc = "clear_order"]
    /\ UNCHANGED <<access_order, cache_exc, cacheRest>>

\* clear, line 328: self.access_order.clear()
ConcClearOrder(c) ==
    /\ th[c].pc = "clear_order"
    /\ access_order' = <<>>
    /\ th' = [th EXCEPT ![c] = CacheReturn(th[c])]
    /\ UNCHANGED <<cache, cache_calls, cache_exc, cacheRest>>

CacheConcInit == CacheInit

CacheConcNext ==
    \/ \E c \in Callers : ConcGetCall(c)
    \/ \E c \in Callers : ConcGetRemove(c)
    \/ \E c \in Callers : ConcGetAppend(c)
    \/ \E c \in Callers : ConcGetReturn(c)
    \/ \E c \in Callers : ConcSetCall(c)
    \/ \E c \in Callers : ConcSetPop(c)
    \/ \E c \in Callers : ConcSetDel(c)
    \/ \E c \in Callers : ConcSetStore(c)
    \/ \E c \in Callers : ConcSetCheck(c)
    \/ \E c \in Callers : ConcSetAppend(c)
    \/ \E c \in Callers : ConcClearCall(c)
    \/ \E c \in Callers : ConcClearOrder(c)

CacheConcSpec == CacheConcInit /\ [][CacheConcNext]_vars

(***************************************************************************)
(* Claims about the TranslationCache (checked under CacheSpec).            *)
(***************************************************************************)
LastCall == cache_calls[Len(cache_calls)]
\* the keys stored now that were stored before the eviction of a set
Stored == DOMAIN cache
\* the least recently used of the stored keys: last hit by get, or inserted
\* if never hit, the longest ago
LeastRecentlyUsed(k) ==
    /\ k \in Stored
    /\ \A j \in Stored : last_use[k] <= last_use[j]

\* C9: after any sequence of get, set and clear on a cache constructed with
\* capacity N >= 1, the number of stored entries never exceeds N.
C9_SizeNeverExceedsCapacity ==
    Cardinality(DOMAIN cache) <= max_size

\* C9 witness: a set has just inserted a new key into a full cache, which
\* is full again after it.
C9_Witness ==
    /\ Len(cache_calls) > max_size
    /\ LastCall[1] = "set"
    /\ last_use[LastCall[2]] = Len(cache_calls)
    /\ Cardinality(DOMAIN cache) = max_size
    /\ \E k \in DOMAIN last_use : k \notin DOMAIN cache

\* C10: a set that inserts a new key into a full cache evicts exactly one
\* entry, the least recently used one (recency = the last get hit, or the
\* insertion), and keeps every other entry; and a key that get has just hit
\* is not the victim of the next set while another key is stored.
C10_EvictsLeastRecentlyUsed ==
    [][ /\ ( /\ Len(cache_calls') = Len(cache_calls) + 1
             /\ cache_calls'[Len(cache_calls')][1] = "set"
             /\ cache_calls'[Len(cache_calls')][2] \notin Stored
             /\ Cardinality(Stored) = max_size )
           => \E victim \in Stored :
                 /\ LeastRecentlyUsed(victim)
                 /\ DOMAIN cache' =
                      (Stored \ {victim}) \cup {cache_calls'[Len(cache_calls')][2]}
                 /\ \A k \in Stored \ {victim} : cache'[k] = cache[k]
        /\ ( /\ Len(cache_calls) > 0
             /\ Len(cache_calls') = Len(cache_calls) + 1
             /\ LastCall[1] = "get"
             /\ LastCall[3] # None
             /\ cache_calls'[Len(cache_calls')][1] = "set"
             /\ Cardinality(Stored) > 1 )
           => LastCall[2] \in DOMAIN cache'
      ]_vars

\* C10 witness: set has evicted a key that was inserted after a key still
\* stored, because get hit the older key in the call before.
C10_Witness ==
    /\ Len(cache_calls) >= 4
    /\ LastCall[1] = "set"
    /\ last_use[LastCall[2]] = Len(cache_calls)
    /\ cache_calls[Len(cache_calls) - 1][1] = "get"
    /\ cache_calls[Len(cache_calls) - 1][3] # None
    /\ cache_calls[Len(cache_calls) - 1][2] \in DOMAIN cache
    /\ \E e \in DOMAIN last_use \ DOMAIN cache :
          /\ cache_calls[last_use[e]][1] = "set"
          /\ \E i \in 1..(last_use[e] - 1) :
                /\ cache_calls[i][1] = "set"
                /\ cache_calls[i][2] = cache_calls[Len(cache_calls) - 1][2]

(***************************************************************************)
(* Claims about the coordinator.                                           *)
(***************************************************************************)
StopCalls == {i \in 1..Len(calls) : calls[i][2] = "stop"}
\* a start has been called and no stop since
StartSinceStop ==
    \E i \in 1..Len(calls) :
        /\ calls[i][2] = "start"
        /\ \A j \in (i + 1)..Len(calls) : calls[j][2] # "stop"
\* the step in which thread c calls the method
CallStep(c, method) ==
    /\ th[c].pc = "idle"
    /\ calls' = Append(calls, <<c, method, state, Observed>>)
\* thread c is inside its call of the method, the last call made
InCall(c, method) ==
    /\ calls # <<>>
    /\ calls[Len(calls)][1] = c
    /\ calls[Len(calls)][2] = method
    /\ th[c].pc # "idle"
IsPrefix(s, t) == Len(s) <= Len(t) /\ SubSeq(t, 1, Len(s)) = s
SegmentsOf(rs) == [i \in 1..Len(rs) |-> rs[i].segment]
\* the worker is between two segments, or gone
BetweenSegments(w) == th[w].pc \in {"w_loop", "w_empty", "exited"}

\* C1: when the processing of a dequeued segment raises inside the worker,
\* the worker does not terminate (no stop having been called): it stays in
\* its loop to process the segments queued behind the failing one.
C1_WorkerSurvivesError ==
    \A i \in 1..Len(raised) :
        (raised[i][2] # 0 /\ StopCalls = {})
            => th[raised[i][1]].pc # "exited"

\* C2: in a run of three enqueued segments where recognition fails on the
\* second and gives non-blank text on the first and the third, once the
\* three are processed exactly two results have been delivered, for the
\* first and the third in that order, and the errors counter is one more
\* than at the start.
C2_FailedRecognitionCounted ==
    ( /\ enqueued = 3
      /\ DOMAIN rec_log = 1..3
      /\ rec_log[1] = "text" /\ rec_log[2] = "failed" /\ rec_log[3] = "text"
      /\ raised = <<>>
      /\ \A w \in WorkerIds : BetweenSegments(w) )
    => /\ SegmentsOf(results) = <<1, 3>>
       /\ stats.errors = calls[1][4].errors + 1

\* C3: a start_translation called in a state other than Stopped returns
\* failure and changes nothing: the state, the events delivered, the
\* workers and the extraction are as before; and a start called after a
\* start with no stop in between is such a call.
C3_StartRejectedUnlessStopped ==
    [][\A c \in Callers :
         ( /\ CallStep(c, "start")
           /\ (state # STOPPED \/ StartSinceStop) )
         => /\ th' = [th EXCEPT ![c].ret = "False"]
            /\ UNCHANGED <<cacheVars, coordVars, state_events, state_changes,
                           error_events, results, enqueued>>
      ]_vars

\* C3 witness: a second start, called while the first one's outcome was
\* Running, has returned failure.
C3_Witness ==
    /\ Len(calls) >= 2
    /\ calls[1][2] = "start"
    /\ calls[2][2] = "start"
    /\ calls[2][3] = RUNNING
    /\ th[calls[2][1]].pc = "idle"
    /\ th[calls[2][1]].ret = "False"

\* C4: a stop_translation called while the state is Stopped is a no-op:
\* the state stays Stopped throughout, no state event and no error event
\* is delivered, the statistics are unchanged.
C4_StopWhileStoppedIsNoOp ==
    ( /\ Len(calls) = 1
      /\ calls[1][2] = "stop"
      /\ calls[1][3] = STOPPED )
    => /\ state = STOPPED
       /\ state_events = <<>>
       /\ error_events = <<>>
       /\ stats = InitStats

\* C5: when a stop_translation is called while a start_translation is
\* still completing, then once both calls have returned the state is
\* Stopped, the coordinator has no worker and the extraction is not running.
C5_StopOverlappingStartEndsStopped ==
    ( /\ Len(calls) = 2
      /\ calls[1][2] = "start" /\ calls[1][3] = STOPPED
      /\ calls[2][2] = "stop" /\ calls[2][3] = STARTING
      /\ \A c \in Callers : th[c].pc = "idle" )
    => /\ state = STOPPED
       /\ ~is_streaming
       /\ workers = <<>>

\* C6: a stop_translation called from Running or Error terminates: its
\* wait on the workers never blocks it, and when it returns the state is
\* Stopped and the worker list is empty.
C6_StopTerminatesStopped ==
    [][\A c \in Callers :
         ( /\ InCall(c, "stop")
           /\ calls[Len(calls)][3] \in {RUNNING, ERROR} )
         => /\ th[c].pc = "stop_join"
                 => \A i \in 1..Len(workers) : JoinReturns(th[workers[i]].pc)
            /\ th'[c].pc = "idle"
                 => (state' = STOPPED /\ workers' = <<>>)
      ]_vars

\* C7: the values delivered to the state callback are the distinct changes
\* of the state, in the order of the changes, each once and none for a
\* no-op change: at every moment the values delivered so far are the first
\* of the changes made so far.
C7_StateEventsFollowChanges ==
    IsPrefix(state_events, state_changes)

\* C8: a start_translation whose source is not live or has no stream info
\* returns failure, having delivered exactly the state events Starting and
\* Error and one error event, and raised the errors counter by 1; no thread
\* is spawned and the extraction is not started (no worker or extraction
\* loop of an earlier start being alive at the call).
C8_ValidationFailure ==
    [][\A c \in Callers :
         ( /\ InCall(c, "start")
           /\ calls[Len(calls)][3] = STOPPED
           /\ calls[Len(calls)][4].live = {}
           /\ th[c].pc = "err_cb"
           /\ th[c].err_ret = "start_return_false"
           /\ th'[c].pc = "idle" )
         => LET o == calls[Len(calls)][4] IN
            /\ th'[c].ret = "False"
            /\ SubSeq(state_events', o.state_events + 1, Len(state_events'))
                 = <<STARTING, ERROR>>
            /\ Len(error_events') = o.error_events + 1
            /\ error_events'[Len(error_events')] \in {"not_live", "no_info"}
            /\ stats'.errors = o.errors + 1
            /\ DOMAIN th' = o.threads
            /\ workers' = <<>>
            /\ ~is_streaming'
      ]_vars

\* C8 witness: the second failed start of a run (start, stop, start) has
\* returned failure; the errors counter went from 1 to 2.
C8_Witness ==
    /\ Len(calls) = 3
    /\ calls[3][2] = "start"
    /\ calls[3][3] = STOPPED
    /\ calls[3][4].errors = 1
    /\ th[calls[3][1]].pc = "idle"
    /\ th[calls[3][1]].ret = "False"
    /\ stats.errors = 2
    /\ Len(error_events) = 2

\* the calls i..j made on the cache are all gets
AllGets(i, j) == \A n \in i..j : cache_calls[n][1] = "get"

\* C13: a get that immediately follows a set of the same key returns the
\* value set; and with capacity 1, after two successive sets of distinct
\* keys a get of the first key returns None and a get of the second
\* returns its value.
C13_SetThenGet ==
    /\ \A i \in 1..(Len(cache_calls) - 1) :
          ( /\ cache_calls[i][1] = "set"
            /\ cache_calls[i + 1][1] = "get"
            /\ cache_calls[i + 1][2] = cache_calls[i][2] )
          => cache_calls[i + 1][3] = cache_calls[i][3]
    /\ max_size = 1 =>
          \A i \in 1..(Len(cache_calls) - 2) :
            ( /\ cache_calls[i][1] = "set"
              /\ cache_calls[i + 1][1] = "set"
              /\ cache_calls[i + 1][2] # cache_calls[i][2] )
            => \A j \in (i + 2)..Len(cache_calls) :
                  AllGets(i + 2, j) =>
                    /\ cache_calls[j][2] = cache_calls[i][2]
                          => cache_calls[j][3] = None
                    /\ cache_calls[j][2] = cache_calls[i + 1][2]
                          => cache_calls[j][3] = cache_calls[i + 1][3]

\* C13 witness: capacity 1; set k1, set k2, get k1 gave None, get k2 gave
\* the value of the second set.
C13_Witness ==
    /\ max_size = 1
    /\ Len(cache_calls) = 4
    /\ cache_calls[1][1] = "set"
    /\ cache_calls[2][1] = "set"
    /\ cache_calls[2][2] # cache_calls[1][2]
    /\ SubSeq(cache_calls[3], 1, 3) = <<"get", cache_calls[1][2], None>>
    /\ SubSeq(cache_calls[4], 1, 3)
          = <<"get", cache_calls[2][2], cache_calls[2][3]>>

(***************************************************************************)
(* Claims about the TranslationCache called from two threads (checked      *)
(* under CacheConcSpec).                                                   *)
(***************************************************************************)
CacheCalled(name) == \E i \in 1..Len(cache_calls) : cache_calls[i][1] = name
CacheQuiet == \A c \in Callers : th[c].pc = "idle"
\* the recency list holds exactly the stored keys, each once
OrderMatchesCache ==
    /\ {access_order[i] : i \in 1..Len(access_order)} = DOMAIN cache
    /\ Len(access_order) = Cardinality(DOMAIN cache)

\* C11: get and set called concurrently from several threads, with no lock
\* around them, keep the cache consistent: no call raises, the size stays
\* within max_size, and once the calls have returned the recency list holds
\* exactly the stored keys, each once.
C11_ConcurrentGetSetConsistent ==
    ~CacheCalled("clear")
    => /\ cache_exc = ""
       /\ Cardinality(DOMAIN cache) <= max_size
       /\ CacheQuiet => OrderMatchesCache

\* C12: clear is atomic with respect to concurrent get and set: once the
\* calls have returned, the entry map and the recency list of a cache that
\* was cleared agree (no key is in one and not in the other).
C12_ClearIsAtomic ==
    (CacheCalled("clear") /\ CacheQuiet /\ cache_exc = "")
    => {access_order[i] : i \in 1..Len(access_order)} = DOMAIN cache

(***************************************************************************)
(* Claims about the processing of a segment.                               *)
(***************************************************************************)
\* worker w takes a step that is not an exception
WorkerStep(w) == th'[w] # th[w] /\ th'[w].pc # "err_log"
\* worker w is finishing a segment whose translation failed
TranslationFailed(w) ==
    th[w].pc \in {"w_miss", "w_deliver"} /\ th[w].trans = None

\* C14: when recognition gave non-blank text and the translation fails on
\* a cache miss, the cache set is skipped and exactly one result is
\* delivered for the segment, with the original text, no translated text
\* and confidence 0; these steps store nothing in the cache, deliver no
\* error event and leave the state unchanged.
C14_FailedTranslationDelivered ==
    [][\A w \in WorkerIds :
         /\ ( /\ th[w].pc = "w_translate"
              /\ WorkerStep(w)
              /\ th'[w].trans = None )
            => /\ th'[w].pc = "w_miss"
               /\ UNCHANGED <<cache, access_order, state, results, error_events>>
         /\ (TranslationFailed(w) /\ WorkerStep(w))
            => /\ UNCHANGED <<cache, access_order, state, error_events>>
               /\ th[w].pc = "w_miss" => results' = results
               /\ th[w].pc = "w_deliver" =>
                    /\ results' = Append(results,
                                    [segment |-> th[w].audio,
                                     original_text |-> th[w].text,
                                     translated_text |-> None,
                                     confidence |-> <<0, 1>>,
                                     language |-> source_language])
                    /\ ~IsBlank(th[w].text)
                    /\ Cardinality({i \in 1..Len(results') :
                                      results'[i].segment = th[w].audio}) = 1
      ]_vars

\* C14 witness: a result without translated text has been delivered, and
\* the cache is empty.
C14_Witness ==
    /\ \E i \in 1..Len(results) :
          /\ results[i].translated_text = None
          /\ results[i].confidence = <<0, 1>>
          /\ results[i].original_text \in RecognizedTexts
    /\ cache = EmptyDict


\* C15: when recognition fails (None) or gives empty or whitespace-only
\* text, the segment is dropped: the worker returns to its loop without
\* consulting the cache or the translator, no result and no error event is
\* delivered, and the state and the statistics are unchanged.
C15_UnrecognizedSegmentDropped ==
    [][\A w \in WorkerIds :
         ( /\ th[w].pc = "w_recog"
           /\ WorkerStep(w)
           /\ th[w].audio \in DOMAIN rec_log'
           /\ rec_log'[th[w].audio] \in {"failed", "blank"} )
         => /\ th'[w].pc = "w_loop"
            /\ UNCHANGED <<cache, access_order, results, error_events,
                           state, stats>>
      ]_vars

\* C15 witness: the first segment was dropped after a failed recognition
\* and the worker went on to deliver a result for the second.
C15_Witness ==
    /\ 1 \in DOMAIN rec_log
    /\ rec_log[1] = "failed"
    /\ \E i \in 1..Len(results) : results[i].segment = 2
    /\ error_events = <<>>
    /\ stats.errors = 0


\* the collaborator failures so far: recognitions that failed, and
\* translations that failed (their results carry no translated text)
FailedRecognitions == {seg \in DOMAIN rec_log : rec_log[seg] = "failed"}
FailedTranslations ==
    {i \in 1..Len(results) : results[i].translated_text = None}
Failures == Cardinality(FailedRecognitions) + Cardinality(FailedTranslations)

\* C16: every failure of a collaborator while a segment is processed
\* (recognition failing, translation failing) gives exactly one error event
\* and raises the errors counter by one: in a run of one successful start
\* with no exception raised, once the worker is between segments the
\* errors counter and the number of error events equal the number of
\* failures.
C16_FailuresReported ==
    ( /\ Len(calls) = 1
      /\ calls[1][2] = "start"
      /\ th[calls[1][1]].pc = "idle"
      /\ th[calls[1][1]].ret = "True"
      /\ raised = <<>>
      /\ \A w \in WorkerIds : BetweenSegments(w) )
    => /\ stats.errors = Failures
       /\ Len(error_events) = Failures



\* ---- Claims about the statistics ----

\* the methods called so far
Called(method) == \E i \in 1..Len(calls) : calls[i][2] = method

\* C17: a get_stats call concurrent with a worker's statistics update never
\* returns a snapshot in which segments_processed counts a segment whose
\* audio time is not yet in total_audio_time: as long as the segment
\* duration keeps its default (no configure) and the statistics were not
\* reset, every snapshot has total_audio_time = segments_processed * 10.
C17_SnapshotCountsWholeSegments ==
    ( /\ returned # None
      /\ returned[1].exc = ""
      /\ ~returned[1].mutated
      /\ ~Called("configure")
      /\ ~Called("reset_stats") )
    => returned[1].val.total_audio_time
          = returned[1].val.segments_processed * 10


\* the step is a whole call of get_stats
GetStatsStep ==
    /\ Len(calls') = Len(calls) + 1
    /\ calls'[Len(calls')][2] = "get_stats"

\* no worker is inside a segment, no exception was raised, and neither the
\* segment duration nor the statistics were touched: every delivered result
\* is a segment processed to the end with the default duration
SegmentsSettled ==
    /\ \A w \in WorkerIds : BetweenSegments(w)
    /\ raised = <<>>
    /\ ~Called("configure")
    /\ ~Called("reset_stats")

\* C18: after k segments have been processed to a result with an unchanged
\* segment duration d = 10, get_stats returns (it does not raise) a snapshot
\* with segments_processed = k and total_audio_time = k * d, and reports
\* avg_processing_time = total_processing_time / k, or 0 when k = 0.
C18_AverageReported ==
    [][ (GetStatsStep /\ SegmentsSettled)
        => /\ returned'[1].exc = ""
           /\ returned'[1].val.segments_processed = Len(results)
           /\ returned'[1].val.total_audio_time = Len(results) * 10
           /\ returned'[1].derived.avg_processing_time
                 = IF Len(results) > 0
                     THEN Ratio(returned'[1].val.total_processing_time,
                                Len(results))
                     ELSE <<0, 1>> ]_vars


\* the six counters of self.stats
Counters == {"segments_processed", "total_audio_time",
             "total_processing_time", "errors", "cache_hits", "cache_misses"}

\* the step is a whole call of reset_stats
ResetStatsStep ==
    /\ Len(calls') = Len(calls) + 1
    /\ calls'[Len(calls')][2] = "reset_stats"

\* C19: no counter ever decreases across start, stop, configure, the
\* processing of segments and get_stats; only reset_stats lowers counters,
\* and it sets all six to zero.
C19_CountersNeverDecrease ==
    [][ IF ResetStatsStep
          THEN \A f \in Counters : stats'[f] = 0
          ELSE \A f \in Counters : stats'[f] >= stats[f] ]_vars


\* the step is the caller's write into the mapping get_stats returned
MutateStep ==
    /\ returned # None
    /\ returned' # None
    /\ ~returned[1].mutated
    /\ returned'[1].mutated

\* C20: get_stats returns a snapshot copy: the call changes no counter and
\* no coordinator state and returns the live counters as they are (whatever
\* was done to a mapping returned earlier), and a write into the returned
\* mapping changes no live counter.
C20_GetStatsReturnsCopy ==
    [][ /\ GetStatsStep => /\ UNCHANGED coordVars
                           /\ returned'[1].val = stats
        /\ MutateStep => UNCHANGED coordVars ]_vars

\* C20 witness: after a successful start, the caller has written into the
\* mapping returned by get_stats; the mapping counts one error more than the
\* live counters.
C20_Witness ==
    /\ Called("start")
    /\ state = RUNNING
    /\ returned # None
    /\ returned[1].mutated
    /\ returned[1].val.errors = stats.errors + 1


\* ---- Claims about the cache as the worker uses it ----

\* the original texts of the results i..j
TextsOf(i, j) == {results[k].original_text : k \in i..j}

\* the run is one successful start and nothing else from the callers; every
\* segment put on the queue was recognized as text, translated (or served
\* from the cache) and delivered, and its statistics are recorded
AllProcessed ==
    /\ Len(calls) = 1
    /\ calls[1][2] = "start"
    /\ raised = <<>>
    /\ \A w \in WorkerIds : BetweenSegments(w)
    /\ Len(results) = enqueued
    /\ \A i \in 1..Len(results) : results[i].translated_text # None

\* C21: for N distinct recognized texts (N within the cache capacity) whose
\* translations succeed: after the N texts are processed once there are N
\* cache misses and no hit; after the same N texts are processed once more
\* there are N hits and still N misses.
C21_SecondPassHits ==
    \A N \in 1..max_size :
      /\ ( /\ AllProcessed
           /\ Len(results) = N
           /\ Cardinality(TextsOf(1, N)) = N )
         => /\ stats.cache_misses = N
            /\ stats.cache_hits = 0
      /\ ( /\ AllProcessed
           /\ Len(results) = 2 * N
           /\ Cardinality(TextsOf(1, N)) = N
           /\ Cardinality(TextsOf(N + 1, 2 * N)) = N
           /\ TextsOf(N + 1, 2 * N) = TextsOf(1, N) )
         => /\ stats.cache_misses = N
            /\ stats.cache_hits = N

\* ---- Claims about configure ----

\* worker w hands its result to transcription_callback in this step
DeliverStep(w) ==
    /\ th[w].pc = "w_deliver"
    /\ Len(results') = Len(results) + 1

\* C22: a configure call never affects a segment already being processed:
\* for every delivered result, the source language passed to the
\* recognition, the (source, target) pairs used for the cache lookup, the
\* translation and the cache store, and the language field of the result
\* are the values configured when the processing of the segment began.
C22_ConfigureSparesSegmentInFlight ==
    [][\A w \in WorkerIds :
         DeliverStep(w) =>
            /\ results'[Len(results')].language = th[w].began[1][1]
            /\ \A j \in 1..Len(th[w].used) :
                  LET use == th[w].used[j] IN
                  /\ use[2] = th[w].began[1][1]
                  /\ Len(use) = 3 => use[3] = th[w].began[1][2]
      ]_vars


\* a configure call made while Running has returned
ConfiguredWhileRunning ==
    /\ \E i \in 1..Len(calls) :
          calls[i][2] = "configure" /\ calls[i][3] = RUNNING
    /\ \A c \in Callers : th[c].pc \notin {"cfg_target", "cfg_duration"}

\* C23: after configure(segment_duration = d) is called while Running,
\* every segment extracted and enqueued after the call has the configured
\* duration, and total_audio_time grows, for each processed segment, by the
\* duration that segment was extracted with.
C23_DurationAppliesToNextSegments ==
    [][ /\ (ConfiguredWhileRunning /\ enqueued' = enqueued + 1)
           => seg_dur'[enqueued'] = segment_duration
        /\ \A w \in WorkerIds :
              (th[w].pc = "w_stats_audio" /\ th'[w].pc = "w_loop")
              => stats'.total_audio_time
                    = stats.total_audio_time + seg_dur[th[w].audio]
      ]_vars


\* ---- Claims about the callbacks ----

\* a callback raises in this step, called by thread t
CallbackRaises(t, callback) ==
    /\ Len(cb_errors') = Len(cb_errors) + 1
    /\ cb_errors'[Len(cb_errors')] = callback
    /\ th'[t] # th[t]

\* C24: an exception raised by a registered transcription, error or state
\* callback is swallowed at the coordinator: the thread that called the
\* callback continues as after a callback that returned (the exception
\* reaches neither the caller nor the worker loop), the state and the
\* errors counter are unchanged, no error event is triggered by it, and
\* the statistics of the segment are recorded all the same (with all
\* workers between segments, no exception escaped and no reset, every
\* delivered result is counted in segments_processed).
C24_CallbackExceptionSwallowed ==
    [][ /\ \A t \in DOMAIN th :
             /\ CallbackRaises(t, "state")
                => /\ th'[t] = Resume(th[t], th[t].upd_ret)
                   /\ UNCHANGED <<state, stats, error_events>>
             /\ CallbackRaises(t, "error")
                => /\ th'[t] = Resume(th[t], th[t].err_ret)
                   /\ UNCHANGED <<state, stats>>
                   /\ error_events' = Append(error_events, th[t].msg)
             /\ CallbackRaises(t, "transcription")
                => /\ th'[t] = [th[t] EXCEPT !.pc = "w_stats"]
                   /\ UNCHANGED <<state, stats, error_events>>
        /\ ( /\ \A w \in WorkerIds : BetweenSegments(w)
             /\ raised = <<>>
             /\ ~Called("reset_stats") )
           => stats.segments_processed = Len(results)
      ]_vars

\* C24 witness: the transcription callback raised for the one segment of the
\* run; the worker is back at the head of its loop, the segment is counted,
\* the state is Running and no error was counted or reported.
C24_Witness ==
    /\ cb_errors = <<"transcription">>
    /\ Len(results) = 1
    /\ \A w \in WorkerIds : th[w].pc = "w_loop"
    /\ WorkerIds # {}
    /\ stats.segments_processed = 1
    /\ stats.errors = 0
    /\ error_events = <<>>
    /\ state = RUNNING


\* ---- Claims about stop followed by a new start ----

\* C25: transcription results are delivered at most once per enqueued
\* segment and in the order in which their segments were enqueued, in any
\* run, stop followed by a new start included: the segment numbers of the
\* results delivered so far are strictly increasing.
C25_ResultsInEnqueueOrder ==
    \A i \in 1..Len(results) : \A j \in 1..Len(results) :
        i < j => results[i].segment < results[j].segment


\* ---- Claims about get_translation_confidence ----

\* C26: get_translation_confidence returns a value in [0, 1] for all
\* inputs: 0 when the original or the translation is empty or
\* whitespace-only, and 0.7 * (shorter length / longer length) when both
\* are non-blank, which is strictly between 0 and 1 (so never below the
\* value of an absent translation).
C26_ConfidenceInUnitInterval ==
    returned # None =>
        LET o == returned[1].original
            t == returned[1].translated
            num == returned[1].confidence[1]
            den == returned[1].confidence[2]
        IN  /\ den > 0
            /\ 0 <= num /\ num <= den
            /\ (o \in {"", " "} \/ t \in {"", " "}) => num = 0
            /\ (o \notin {"", " "} /\ t \notin {"", " "})
                 => /\ num * 10 * Max(Len(o), Len(t))
                         = 7 * Min(Len(o), Len(t)) * den
                    /\ 0 < num /\ num < den

\* C26 witness: the score of a non-blank original with a longer non-blank
\* translation has been returned.
C26_Witness ==
    /\ returned # None
    /\ returned[1].original = "hello"
    /\ returned[1].translated = "ja:hello"
    /\ returned[1].confidence = <<35, 80>>


\* ---- Claims about start_translation ----

\* caller c returns success from start_translation in this step
StartSucceeds(c) ==
    /\ InCall(c, "start")
    /\ th'[c].pc = "idle"
    /\ th'[c].ret = "True"

\* C27: when start_translation returns success the state is Running,
\* exactly one worker has been spawned and the continuous extraction has
\* begun with the configured segment duration; the state events delivered
\* since the call are exactly Starting then Running, and no error event
\* was delivered.
C27_StartSucceeds ==
    [][\A c \in Callers :
         StartSucceeds(c) =>
            LET o == calls[Len(calls)][4]
                spawned == DOMAIN th' \ o.threads
            IN  /\ state' = RUNNING
                /\ Cardinality(spawned \cap (11..19)) = 1
                /\ Cardinality(spawned \cap (21..29)) = 1
                /\ \A e \in spawned \cap (21..29) :
                      th'[e].dur = segment_duration'
                /\ is_streaming'
                /\ SubSeq(state_events', o.state_events + 1,
                          Len(state_events')) = <<STARTING, RUNNING>>
                /\ Len(error_events') = o.error_events
      ]_vars


\* the changes of state the state machine allows
Transitions ==
    {<<STOPPED, STARTING>>, <<STARTING, RUNNING>>, <<RUNNING, STOPPING>>,
     <<ERROR, STOPPING>>, <<STOPPING, STOPPED>>}
      \cup {<<s, ERROR>> : s \in {STOPPED, STARTING, RUNNING, STOPPING}}

\* C28: every change of the coordinator state follows the state machine:
\* Stopped to Starting, Starting to Running, Running to Stopping, Error to
\* Stopping, Stopping to Stopped, or any state to Error; no other change of
\* state occurs.
C28_StateMachine ==
    [][state' # state => <<state, state'>> \in Transitions]_vars


\* a stop_translation called when worker w existed has returned, and
\* start_translation was called after it
RestartedSince(w) ==
    \E i \in StopCalls :
        /\ w \in calls[i][4].threads
        /\ \E j \in (i + 1)..Len(calls) : calls[j][2] = "start"

\* worker w takes a segment (not the None marker) off the queue in this step
DequeueStep(w) ==
    /\ th[w].pc = "w_get"
    /\ th'[w].pc = "w_recog"

\* worker w evaluates the condition of its loop (line 136) in this step
LoopStep(w) ==
    /\ th[w].pc = "w_loop"
    /\ th'[w].pc # "w_loop"

\* C29: after stop_translation a worker spawned by the preceding start
\* leaves its loop and never dequeues another segment, even if
\* start_translation is called again before the worker has noticed the
\* stop: a worker that lived through a stop_translation leaves the loop
\* when it next evaluates the loop condition and dequeues no segment of the
\* start that follows.
C29_StoppedWorkerLeavesLoop ==
    [][\A w \in WorkerIds :
         RestartedSince(w) =>
            /\ LoopStep(w) => th'[w].pc = "exited"
            /\ ~DequeueStep(w)
      ]_vars


\* the last call made is a stop_translation, and it has returned
StopReturned ==
    /\ calls # <<>>
    /\ calls[Len(calls)][2] = "stop"
    /\ th[calls[Len(calls)][1]].pc = "idle"

\* C30: the segments still queued when stop_translation drains the queue
\* are discarded, and when stop_translation has returned the audio queue is
\* empty: no segment and no terminal marker remains to be seen by the
\* worker of a later start.
C30_QueueEmptyAfterStop ==
    StopReturned => audio_queue = <<>>



\* ---- Claims about the extraction loops ----

\* call i is a stop_translation that has executed stop_extraction (line
\* 282): a later call was made, or its caller is past that statement
PastStopExtraction(i) ==
    \/ i < Len(calls)
    \/ LET r == th[calls[i][1]] IN
         /\ r.pc # "stop_extraction"
         /\ ~(r.pc \in {"upd_check", "upd_write", "upd_cb"}
                /\ r.upd_ret = "stop_extraction")

\* stop_extraction was executed while the extraction loop e existed
StoppedSince(e) ==
    \E i \in StopCalls :
        /\ e \in calls[i][4].threads
        /\ PastStopExtraction(i)

\* the extraction loop e evaluates the condition of its loop (line 178) in
\* this step
ExtractorLoopStep(e) ==
    /\ th[e].pc = "ex_loop"
    /\ th'[e].pc # "ex_loop"

\* C31: at most one continuous-extraction loop feeds the audio queue: after
\* stop_extraction the loop started by the preceding
\* start_continuous_extraction delivers at most its in-flight segment and
\* then exits (it exits when it next evaluates the condition of its loop),
\* also when start_continuous_extraction is called again before the loop
\* has re-checked its streaming flag.
C31_StoppedExtractionExits ==
    [][\A e \in ExtractorIds :
         (StoppedSince(e) /\ ExtractorLoopStep(e)) => th'[e].pc = "exited"
      ]_vars



\* ---- Claims about the cache in the worker ----

\* worker w executes the statement at pc in this step, and no exception
\* escapes it
WorkerAt(w, pc) ==
    /\ th[w].pc = pc
    /\ th'[w] # th[w]
    /\ th'[w].pc # "err_log"

\* the cache entry addressed by the lookup worker w is about to make
LookupKey(w) == make_key(th[w].text, source_language, target_language)

\* C32: for every segment with non-blank recognized text the translation
\* is requested exactly when the cache lookup misses.  A hit uses the
\* cached value, increments cache_hits only and makes no translation call;
\* a miss makes exactly one translation call, increments cache_misses only,
\* and stores the translation in the cache when it succeeded.  Statement by
\* statement, and as the list of the calls made for a delivered segment.
C32_TranslateExactlyOnMiss ==
    [][\A w \in WorkerIds :
         /\ WorkerAt(w, "w_cache_get") =>
               /\ UNCHANGED <<stats, cache>>
               /\ IF LookupKey(w) \in DOMAIN cache
                    THEN /\ th'[w].pc = "w_hit"
                         /\ th'[w].trans = Some(cache[LookupKey(w)])
                    ELSE th'[w].pc = "w_translate"
         /\ WorkerAt(w, "w_hit") =>
               /\ stats' = AddTo(stats, "cache_hits", 1)
               /\ th'[w].pc = "w_deliver"
               /\ th'[w].trans = th[w].trans
               /\ UNCHANGED cache
         /\ WorkerAt(w, "w_translate") =>
               /\ UNCHANGED <<stats, cache>>
               /\ th'[w].pc = IF th'[w].trans = None
                                THEN "w_miss" ELSE "w_cache_set"
         /\ WorkerAt(w, "w_cache_set") =>
               /\ UNCHANGED stats
               /\ LookupKey(w) \in DOMAIN cache'
               /\ cache'[LookupKey(w)] = th[w].trans[1]
               /\ th'[w].pc = "w_miss"
         /\ WorkerAt(w, "w_miss") =>
               /\ stats' = AddTo(stats, "cache_misses", 1)
               /\ th'[w].pc = "w_deliver"
               /\ UNCHANGED cache
         /\ DeliverStep(w) =>
               LET made == [j \in 1..Len(th[w].used) |-> th[w].used[j][1]]
               IN  \/ made = <<"recognize", "get">> /\ th[w].trans # None
                   \/ made = <<"recognize", "get", "translate">>
                        /\ th[w].trans = None
                   \/ made = <<"recognize", "get", "translate", "set">>
                        /\ th[w].trans # None
      ]_vars



\* ---- Claims about the cache key ----

\* the get and set calls of the stand-alone cache, with their arguments
KeyedCalls == {i \in 1..Len(cache_calls) : cache_calls[i][1] \in {"get", "set"}}

\* the set calls made before call j that address the entry j addresses
SetsBefore(j) ==
    {i \in 1..(j - 1) :
        cache_calls[i][1] = "set" /\ cache_calls[i][2] = cache_calls[j][2]}

\* C33: the cache key is deterministic and separates inputs: two calls
\* with equal (text, source, target) address the same entry, and a get that
\* returns a translation returns the one stored by the latest set that
\* addressed the entry, which was made for the same text and the same
\* language pair.
C33_KeySeparatesInputs ==
    /\ \A i \in KeyedCalls : \A j \in KeyedCalls :
          cache_calls[i][4] = cache_calls[j][4]
             => cache_calls[i][2] = cache_calls[j][2]
    /\ \A j \in KeyedCalls :
          (cache_calls[j][1] = "get" /\ cache_calls[j][3] # None)
          => /\ SetsBefore(j) # {}
             /\ LET i == CHOOSE n \in SetsBefore(j) :
                            \A k \in SetsBefore(j) : k <= n
                IN  /\ cache_calls[i][3] = cache_calls[j][3]
                    /\ cache_calls[i][4] = cache_calls[j][4]



\* ---- Claims about the extraction callback ----

C35_DurationPositive ==
    segment_duration > 0



\* ---- Claims about the time after stop_translation ----

\* a stop_translation has returned, no start_translation was called since,
\* no API call is in progress, and the state is Stopped
StoppedAfterStop ==
    /\ \E i \in StopCalls :
          \A j \in (i + 1)..Len(calls) : calls[j][2] # "start"
    /\ \A c \in Callers : th[c].pc = "idle"
    /\ state = STOPPED

\* C36: once stop_translation has returned with the state Stopped, the
\* state stays Stopped and no error event is delivered until the next call
\* of the API: no step of a worker that outlived the bounded join (an error
\* in its in-flight segment, a queue read that races with the drain)
\* changes the state.
C36_StaysStoppedAfterStop ==
    [][(StoppedAfterStop /\ Len(calls') = Len(calls))
          => /\ state' = STOPPED
             /\ error_events' = error_events
      ]_vars



\* ---- Claims about concurrent calls of start_translation ----

\* the run is two calls of start_translation, by two threads, each made when
\* the state was Stopped
TwoStartsFromStopped ==
    /\ Len(calls) = 2
    /\ calls[1][1] # calls[2][1]
    /\ \A i \in 1..2 : calls[i][2] = "start" /\ calls[i][3] = STOPPED

\* C37: two start_translation calls issued concurrently from Stopped
\* cannot both succeed: at most one of them returns success, and at most
\* one worker thread and one extraction loop are spawned.
C37_OneStartWins ==
    TwoStartsFromStopped
    => /\ ~(\A c \in Callers : th[c].pc = "idle" /\ th[c].ret = "True")
       /\ Cardinality(WorkerIds) <= 1
       /\ Cardinality(ExtractorIds) <= 1



\* ---- Claims about extraction after an error ----

\* C38: while the coordinator is in Stopped or Error no segment is added to
\* the audio queue: after a worker error has moved the coordinator to Error
\* (and its worker leaves the loop), extraction does not go on filling the
\* queue.
C38_NoEnqueueWhenStoppedOrError ==
    [][(state \in {STOPPED, ERROR}) => (enqueued' = enqueued)]_vars



\* ---- Claims about the counters of the segments ----

\* C39: in a run without reset_stats and without an exception in a worker,
\* segments_processed never exceeds cache_hits + cache_misses, and whenever
\* every worker is between segments, segments_processed = cache_hits +
\* cache_misses = the number of transcription results delivered so far.
C39_CountersAgree ==
    (~Called("reset_stats") /\ raised = <<>>)
    => /\ stats.segments_processed <= stats.cache_hits + stats.cache_misses
       /\ (\A w \in WorkerIds : BetweenSegments(w))
            => /\ stats.segments_processed
                    = stats.cache_hits + stats.cache_misses
               /\ stats.cache_hits + stats.cache_misses = Len(results)



\* ---- Claims about get_stats ----

\* C40: get_stats returns a result and never raises, whatever the
\* counters are: also when segments have been processed with a total
\* measured processing time of zero.
C40_GetStatsNeverRaises ==
    (Called("get_stats") /\ returned # None) => returned[1].exc = ""

====
